---- MODULE Spec2Model ----
(***************************************************************************)
(* OPD token allocation engine (src/src/utils/allocationEngine.ts).        *)
(*                                                                         *)
(* The token and audit tables, the slot table and the wall clock are the   *)
(* state.  Every engine operation (createToken, cancelToken, markNoShow,   *)
(* completeToken, expireWaitingTokens) is one action of Spec, which runs   *)
(* the operations one at a time.  SpecConc runs createToken transactions   *)
(* statement by statement, as the database interleaves them; SpecRelease   *)
(* does so for cancelToken, markNoShow and completeToken, SpecExpire for   *)
(* expireWaitingTokens.  SpecBackfill runs the operations on a populated   *)
(* table and SpecSlots adds the slot routes.  SpecVictim and SpecAllocate  *)
(* apply findLowestPriorityToken and allocateToken to every input of a     *)
(* bounded set; SpecEmergency and SpecArrivals are SpecBackfill with       *)
(* EMERGENCY tokens and with a late createToken; SpecRace interleaves      *)
(* expireWaitingTokens with a reallocation, SpecSlotRace the slot handlers *)
(* with createToken.                                                       *)
(*                                                                         *)
(* Time is counted in hours; a slot of date d that ends at hour e ends at  *)
(* the instant d * DayLen + e.  A token's createdAt is its creation        *)
(* sequence number, which is also its row id.                              *)
(***************************************************************************)
EXTENDS Integers, Sequences, FiniteSets, Bags, TLC

VARIABLES tokens, audit, slots, now, last, txs

vars == <<tokens, audit, slots, now, last, txs>>

----------------------------------------------------------------------------
(* Bounds of the model *)

\* rows the token table may hold
MaxTokens == 2
\* last instant the clock reaches
MaxNow == 3
\* EXPIRE_TOKENS events the audit table may hold
MaxExpire == 1

----------------------------------------------------------------------------
(* Enumerations and values *)

\* a null column: ids, caps and timestamps are never negative
NULL == -1

\* no error thrown
OK == "OK"

EMERGENCY == "EMERGENCY"
PAID == "PAID"
FOLLOWUP == "FOLLOWUP"
ONLINE == "ONLINE"
WALKIN == "WALKIN"

Priority == {EMERGENCY, PAID, FOLLOWUP, ONLINE, WALKIN}

Source == {WALKIN, ONLINE}

WAITING == "WAITING"
ALLOCATED == "ALLOCATED"
COMPLETED == "COMPLETED"
CANCELLED == "CANCELLED"
NO_SHOW == "NO_SHOW"
EXPIRED == "EXPIRED"

TokenStatus == {WAITING, ALLOCATED, COMPLETED, CANCELLED, NO_SHOW, EXPIRED}

\* a timestamp column that has been written
SET == 1

\* hours of a day
DayLen == 24

\* walk-ins are preferred for a slot that starts within this many hours
ImminentHours == 1

----------------------------------------------------------------------------
(* Doctors and the slot table *)

Doctors == {"d1", "d2", "d3"}

\* rows of the doctor table with isActive = true
ActiveDoctors == {"d1", "d2"}

Dates == {0}

SlotIds == 1 .. 4

SlotTable ==
  [s \in SlotIds |->
     CASE s = 1 -> [id |-> 1, doctorId |-> "d1", date |-> 0, startTime |-> 1,
                    endTime |-> 2, capacity |-> 1, paidCap |-> NULL,
                    followUpCap |-> NULL, isActive |-> TRUE]
       [] s = 2 -> [id |-> 2, doctorId |-> "d1", date |-> 0, startTime |-> 2,
                    endTime |-> 3, capacity |-> 2, paidCap |-> 1,
                    followUpCap |-> 1, isActive |-> TRUE]
       [] s = 3 -> [id |-> 3, doctorId |-> "d1", date |-> 0, startTime |-> 0,
                    endTime |-> 3, capacity |-> 1, paidCap |-> NULL,
                    followUpCap |-> NULL, isActive |-> FALSE]
       [] s = 4 -> [id |-> 4, doctorId |-> "d2", date |-> 0, startTime |-> 1,
                    endTime |-> 3, capacity |-> 1, paidCap |-> NULL,
                    followUpCap |-> NULL, isActive |-> TRUE]]

----------------------------------------------------------------------------
(* helper.ts: pure functions *)

\* getPriorityOrder: lower number = higher priority
getPriorityOrder(priority) ==
  CASE priority = EMERGENCY -> 1
    [] priority = PAID -> 2
    [] priority = FOLLOWUP -> 3
    [] priority = ONLINE -> 4
    [] priority = WALKIN -> 5

\* canAllocateToSlot without its paid-cap test
canAllocateToSlot_NoPaidCap(priority, currentPaidCount, currentFollowUpCount, currentTotalCount, capacity, paidCap, followUpCap) ==
  IF currentTotalCount >= capacity THEN FALSE
  ELSE IF priority = EMERGENCY THEN TRUE
  ELSE IF priority = FOLLOWUP /\ followUpCap # NULL
          /\ currentFollowUpCount >= followUpCap
    THEN FALSE
  ELSE TRUE

\* canAllocateToSlot: the full-slot test comes first, before the EMERGENCY test
canAllocateToSlot(priority, currentPaidCount, currentFollowUpCount, currentTotalCount, capacity, paidCap, followUpCap) ==
  IF currentTotalCount >= capacity THEN FALSE
  ELSE IF priority = EMERGENCY THEN TRUE
  ELSE IF priority = PAID /\ paidCap # NULL /\ currentPaidCount >= paidCap
    THEN FALSE
  ELSE IF priority = FOLLOWUP /\ followUpCap # NULL
          /\ currentFollowUpCount >= followUpCap
    THEN FALSE
  ELSE TRUE

\* the for loop of findLowestPriorityToken from position i on, carrying
\* lowestToken
RECURSIVE LowestFrom(_, _, _)
LowestFrom(list, i, lowestToken) ==
  IF i > Len(list) THEN lowestToken
  ELSE LET token == list[i]
           currentPriority == getPriorityOrder(token.priority)
           lowestPriority == getPriorityOrder(lowestToken.priority)
       IN IF currentPriority > lowestPriority
            THEN LowestFrom(list, i + 1, token)
          ELSE IF currentPriority = lowestPriority
                  /\ token.createdAt < lowestToken.createdAt
            THEN LowestFrom(list, i + 1, token)
          ELSE LowestFrom(list, i + 1, lowestToken)

\* findLowestPriorityToken breaking ties by the newest createdAt
findLowestPriorityToken_Newest(list) ==
  IF Len(list) = 0 THEN NULL
  ELSE list[CHOOSE i \in 1 .. Len(list) :
              \A j \in 1 .. Len(list) :
                \/ getPriorityOrder(list[j].priority)
                     < getPriorityOrder(list[i].priority)
                \/ /\ list[j].priority = list[i].priority
                   /\ list[j].createdAt <= list[i].createdAt].id

\* findLowestPriorityToken: id of the displacement victim, NULL for no tokens
findLowestPriorityToken(list) ==
  IF Len(list) = 0 THEN NULL ELSE LowestFrom(list, 1, list[1]).id

\* isValidStatusTransition: the table of allowed transitions
isValidStatusTransition(from, to) ==
  CASE from = WAITING -> to \in {ALLOCATED, CANCELLED, EXPIRED}
    [] from = ALLOCATED -> to \in {COMPLETED, NO_SHOW, CANCELLED, WAITING}
    [] OTHER -> FALSE

\* the instant a slot of the given date reaches the given hour
SlotInstant(hour, date) == date * DayLen + hour

\* hasSlotEnded with a strict comparison
hasSlotEnded_Late(slotEndTime, slotDate, t) == t > SlotInstant(slotEndTime, slotDate)

\* hasSlotEnded at clock value t
hasSlotEnded(slotEndTime, slotDate, t) == t >= SlotInstant(slotEndTime, slotDate)

\* shouldPrioritizeWalkIn that leaves out the slots in progress
shouldPrioritizeWalkIn_Future(slotStartTime, slotEndTime, slotDate, t) ==
  IF hasSlotEnded(slotEndTime, slotDate, t) THEN FALSE
  ELSE /\ SlotInstant(slotStartTime, slotDate) - t <= ImminentHours
       /\ SlotInstant(slotStartTime, slotDate) - t > 0

\* shouldPrioritizeWalkIn at clock value t
shouldPrioritizeWalkIn(slotStartTime, slotEndTime, slotDate, t) ==
  IF hasSlotEnded(slotEndTime, slotDate, t) THEN FALSE
  ELSE SlotInstant(slotStartTime, slotDate) - t <= ImminentHours

----------------------------------------------------------------------------
(* Table access *)

TokenIds(toks) == 1 .. Len(toks)

\* slot.tokens with the include filtering on the wrong status
AllocatedTokens_WrongStatus(toks, slotId) ==
  SelectSeq(toks, LAMBDA t : t.status = WAITING /\ t.slotId = slotId)

\* slot.tokens with where status = ALLOCATED, as returned by the include
AllocatedTokens(toks, slotId) ==
  SelectSeq(toks, LAMBDA t : t.status = ALLOCATED /\ t.slotId = slotId)

CountPriority(list, priority) ==
  Len(SelectSeq(list, LAMBDA t : t.priority = priority))

\* a set of slot ids as a sequence ordered by startTime ascending
RECURSIVE OrderByStart(_, _)
OrderByStart(sl, S) ==
  IF S = {} THEN <<>>
  ELSE LET first == CHOOSE s \in S : \A r \in S :
                      \/ sl[s].startTime < sl[r].startTime
                      \/ sl[s].startTime = sl[r].startTime /\ s <= r
       IN <<first>> \o OrderByStart(sl, S \ {first})

\* the slot query without the filter on ended slots
AvailableSlots_NoEndFilter(sl, doctorId, date, t) ==
  OrderByStart(sl, {s \in DOMAIN sl :
                      /\ sl[s].doctorId = doctorId
                      /\ sl[s].date = date
                      /\ sl[s].isActive})

\* the slot query ordered by startTime descending
AvailableSlots_LatestFirst(sl, doctorId, date, t) ==
  LET asc == OrderByStart(sl, {s \in DOMAIN sl :
                                 /\ sl[s].doctorId = doctorId
                                 /\ sl[s].date = date
                                 /\ sl[s].isActive
                                 /\ ~hasSlotEnded(sl[s].endTime, sl[s].date, t)})
  IN [i \in 1 .. Len(asc) |-> asc[Len(asc) + 1 - i]]

\* the slot query without the filter on isActive
AvailableSlots_NoActiveFilter(sl, doctorId, date, t) ==
  OrderByStart(sl, {s \in DOMAIN sl :
                      /\ sl[s].doctorId = doctorId
                      /\ sl[s].date = date
                      /\ ~hasSlotEnded(sl[s].endTime, sl[s].date, t)})

\* allocateToken: the slot query and the filter on ended slots
AvailableSlots(sl, doctorId, date, t) ==
  OrderByStart(sl, {s \in DOMAIN sl :
                      /\ sl[s].doctorId = doctorId
                      /\ sl[s].date = date
                      /\ sl[s].isActive
                      /\ ~hasSlotEnded(sl[s].endTime, sl[s].date, t)})

\* tx.auditLog.create
AuditEvent(operation, tokenId, slotId, doctorId, details) ==
  [operation |-> operation, tokenId |-> tokenId, slotId |-> slotId,
   doctorId |-> doctorId, details |-> details]

\* the events a transaction has written so far, in order
AuditAppend(aud, event) == Append(aud, event)

\* a row of the audit table: rows are told apart by operation and tokenId;
\* the slotId, doctorId and details of an event are those the result of the
\* operation that wrote it shows
AuditRow(event) == [operation |-> event.operation, tokenId |-> event.tokenId]

\* the audit table after a transaction that wrote events commits
RECURSIVE AuditCommit(_, _)
AuditCommit(table, events) ==
  IF events = <<>> THEN table
  ELSE AuditCommit(table (+) SetToBag({AuditRow(Head(events))}), Tail(events))

\* number of rows of the audit table with an operation
AuditCount(table, operation) ==
  BagCardinality([e \in {x \in BagToSet(table) : x.operation = operation}
                    |-> table[e]])

\* number of rows of the audit table with an operation and a token
AuditCountOf(table, operation, tokenId) ==
  CopiesIn([operation |-> operation, tokenId |-> tokenId], table)

----------------------------------------------------------------------------
(* allocateToken *)

\* result of allocateToken: err is the code of the error thrown, or OK
AllocResult(err, success, toks, aud, slotId, message) ==
  [err |-> err, success |-> success, tokens |-> toks, audit |-> aud,
   slotId |-> slotId, message |-> message]

\* an allocation that takes the seat of the displacement victim of the first
\* available slot when that slot is full and the token is EMERGENCY, and
\* leaves the victim WAITING
allocateToken_Displaces(toks, aud, sl, t, tokenId) ==
  IF tokenId \notin TokenIds(toks)
    THEN AllocResult("TOKEN_NOT_FOUND", FALSE, toks, aud, NULL, "Token not found")
  ELSE IF toks[tokenId].status # WAITING
    THEN AllocResult("INVALID_STATUS", FALSE, toks, aud, NULL,
                     "Token is not in waiting status")
  ELSE
    LET avail == AvailableSlots(sl, toks[tokenId].doctorId,
                                toks[tokenId].date, t)
        slot == sl[avail[1]]
        allocatedTokens == AllocatedTokens(toks, slot.id)
        displacedTokenId == findLowestPriorityToken(allocatedTokens)
        placed == [toks EXCEPT ![tokenId].status = ALLOCATED,
                               ![tokenId].slotId = slot.id,
                               ![tokenId].allocatedAt = SET]
    IN IF Len(avail) = 0
         THEN AllocResult(OK, FALSE, toks, aud, NULL, "No available slots")
       ELSE IF Len(allocatedTokens) < slot.capacity
         THEN AllocResult(OK, TRUE, placed, aud, slot.id,
                          "Token allocated successfully")
       ELSE IF toks[tokenId].priority = EMERGENCY /\ displacedTokenId # NULL
         THEN AllocResult(OK, TRUE,
                [placed EXCEPT ![displacedTokenId].status = WAITING,
                               ![displacedTokenId].slotId = NULL,
                               ![displacedTokenId].allocatedAt = NULL],
                aud, slot.id,
                "Emergency token allocated, displaced lower priority token")
       ELSE AllocResult(OK, FALSE, toks, aud, NULL,
                        "All slots are full or capacity limits reached")

\* an allocation whose displacement goes two levels deep: an EMERGENCY token
\* takes the seat of the victim of the first available slot, and the victim
\* takes the seat of the victim of the second one, which is left WAITING
allocateToken_TwoLevels(toks, aud, sl, t, tokenId) ==
  IF tokenId \notin TokenIds(toks)
    THEN AllocResult("TOKEN_NOT_FOUND", FALSE, toks, aud, NULL, "Token not found")
  ELSE IF toks[tokenId].status # WAITING
    THEN AllocResult("INVALID_STATUS", FALSE, toks, aud, NULL,
                     "Token is not in waiting status")
  ELSE
    LET avail == AvailableSlots(sl, toks[tokenId].doctorId,
                                toks[tokenId].date, t)
        first == sl[avail[1]]
        second == sl[avail[2]]
        firstVictim == findLowestPriorityToken(AllocatedTokens(toks, first.id))
        secondVictim == findLowestPriorityToken(AllocatedTokens(toks, second.id))
        event(by, slot, victim) ==
          AuditEvent("EMERGENCY_DISPLACEMENT", by, slot.id,
                     toks[tokenId].doctorId, [displacedTokenId |-> victim])
    IN IF Len(avail) = 0
         THEN AllocResult(OK, FALSE, toks, aud, NULL, "No available slots")
       ELSE IF Len(AllocatedTokens(toks, first.id)) < first.capacity
         THEN AllocResult(OK, TRUE,
                [toks EXCEPT ![tokenId].status = ALLOCATED,
                             ![tokenId].slotId = first.id,
                             ![tokenId].allocatedAt = SET],
                aud, first.id, "Token allocated successfully")
       ELSE IF /\ toks[tokenId].priority = EMERGENCY
               /\ Len(avail) >= 2
               /\ firstVictim # NULL
               /\ secondVictim # NULL
         THEN AllocResult(OK, TRUE,
                [toks EXCEPT ![tokenId].status = ALLOCATED,
                             ![tokenId].slotId = first.id,
                             ![tokenId].allocatedAt = SET,
                             ![firstVictim].slotId = second.id,
                             ![secondVictim].status = WAITING,
                             ![secondVictim].slotId = NULL,
                             ![secondVictim].allocatedAt = NULL],
                AuditAppend(AuditAppend(aud,
                              event(firstVictim, second, secondVictim)),
                            event(tokenId, first, firstVictim)),
                first.id,
                "Emergency token allocated, displaced lower priority token")
       ELSE AllocResult(OK, FALSE, toks, aud, NULL,
                        "All slots are full or capacity limits reached")

RECURSIVE allocateToken(_, _, _, _, _)
RECURSIVE AllocLoop(_, _, _, _, _, _, _)

\* the for loop over availableSlots from position i on
AllocLoop(toks, aud, sl, t, tokenId, avail, i) ==
  IF i > Len(avail)
    THEN AllocResult(OK, FALSE, toks, aud, NULL,
                     "All slots are full or capacity limits reached")
  ELSE
    LET slot == sl[avail[i]]
        token == toks[tokenId]
        allocatedTokens == AllocatedTokens(toks, slot.id)
        currentTotalCount == Len(allocatedTokens)
        paidCount == CountPriority(allocatedTokens, PAID)
        followUpCount == CountPriority(allocatedTokens, FOLLOWUP)
        canAllocate == canAllocateToSlot(token.priority, paidCount,
                         followUpCount, currentTotalCount, slot.capacity,
                         slot.paidCap, slot.followUpCap)
        placed == [toks EXCEPT ![tokenId].status = ALLOCATED,
                               ![tokenId].slotId = slot.id,
                               ![tokenId].allocatedAt = SET]
    IN IF ~canAllocate THEN AllocLoop(toks, aud, sl, t, tokenId, avail, i + 1)
       ELSE IF currentTotalCount < slot.capacity
         THEN AllocResult(OK, TRUE, placed, aud, slot.id,
                          "Token allocated successfully")
       ELSE IF token.priority = EMERGENCY /\ currentTotalCount >= slot.capacity
         THEN
           LET displacedTokenId == findLowestPriorityToken(allocatedTokens)
           IN IF displacedTokenId = NULL
                THEN AllocLoop(toks, aud, sl, t, tokenId, avail, i + 1)
              ELSE
                LET displaced ==
                      [placed EXCEPT ![displacedTokenId].status = WAITING,
                                     ![displacedTokenId].slotId = NULL,
                                     ![displacedTokenId].allocatedAt = NULL]
                    inner == allocateToken(displaced, aud, sl, t,
                                           displacedTokenId)
                    event == AuditEvent("EMERGENCY_DISPLACEMENT", tokenId,
                               slot.id, token.doctorId,
                               [displacedTokenId |-> displacedTokenId])
                IN IF inner.err # OK THEN inner
                   ELSE AllocResult(OK, TRUE, inner.tokens,
                          AuditAppend(inner.audit, event), slot.id,
                          "Emergency token allocated, displaced lower priority token")
       ELSE AllocLoop(toks, aud, sl, t, tokenId, avail, i + 1)

\* allocateToken(tx, tokenId) on token table toks and slot table sl at clock
\* value t; aud holds the audit events the transaction has written
allocateToken(toks, aud, sl, t, tokenId) ==
  IF tokenId \notin TokenIds(toks)
    THEN AllocResult("TOKEN_NOT_FOUND", FALSE, toks, aud, NULL, "Token not found")
  ELSE IF toks[tokenId].status # WAITING
    THEN AllocResult("INVALID_STATUS", FALSE, toks, aud, NULL,
                     "Token is not in waiting status")
  ELSE
    LET avail == AvailableSlots(sl, toks[tokenId].doctorId,
                                toks[tokenId].date, t)
    IN IF Len(avail) = 0
         THEN AllocResult(OK, FALSE, toks, aud, NULL, "No available slots")
       ELSE AllocLoop(toks, aud, sl, t, tokenId, avail, 1)

----------------------------------------------------------------------------
(* Requests *)

\* idempotency keys are opaque: key k names the k-th distinct key in use, so
\* a fresh request carries the key Len(tokens) + 1
Keys == 1 .. MaxTokens

Names == {"ann", "bob"}

CreateTokenInput(patientName, doctorId, date, source, priority, idempotencyKey) ==
  [patientName |-> patientName, doctorId |-> doctorId, date |-> date,
   source |-> source, priority |-> priority,
   idempotencyKey |-> idempotencyKey]

\* request payloads without the key
Payloads ==
  { <<"ann", "d1", EMERGENCY, WALKIN>>,
    <<"ann", "d1", PAID, ONLINE>>,
    <<"ann", "d1", FOLLOWUP, ONLINE>>,
    <<"ann", "d1", ONLINE, ONLINE>>,
    <<"ann", "d1", WALKIN, WALKIN>>,
    <<"bob", "d2", WALKIN, WALKIN>>,
    <<"bob", "d3", PAID, ONLINE>> }

Inputs ==
  { CreateTokenInput(p[1], p[2], d, p[4], p[3], k) :
      p \in Payloads, d \in Dates, k \in Keys }

\* ids a request may name: every row the table can hold
RequestIds == 1 .. MaxTokens

----------------------------------------------------------------------------
(* Results *)

\* what the last operation returned: code is "OK" or the code of the error
\* thrown; moved lists the ids of movedTokens; key is the idempotencyKey of
\* the request when the operation is createToken
Result(op, code, tokenId, slotId, success, moved, count, note) ==
  [op |-> op, code |-> code, tokenId |-> tokenId, slotId |-> slotId,
   success |-> success, moved |-> moved, count |-> count, note |-> note,
   events |-> <<>>, key |-> NULL]

\* a transaction ends: its rows and audit events are committed when it
\* returns, and nothing is when it throws
Commit(r) ==
  /\ tokens' = r.tokens
  /\ audit' = AuditCommit(audit, r.audit)
  /\ last' = [r.result EXCEPT !.events = r.audit]

Failure(op, code, tokenId) ==
  Result(op, code, tokenId, NULL, FALSE, <<>>, 0, "")

\* an idempotency key is held by a row
KeyInUse(toks, key) == \E i \in TokenIds(toks) : toks[i].idempotencyKey = key

\* an existence check that never finds the key
FindByKey_Never(toks, key) == NULL

\* tx.token.findUnique where idempotencyKey: the row with the key, NULL when
\* there is none
FindByKey(toks, key) ==
  IF \E i \in TokenIds(toks) : toks[i].idempotencyKey = key
    THEN CHOOSE i \in TokenIds(toks) : toks[i].idempotencyKey = key
    ELSE NULL

\* tx.token.create: the new row, WAITING and without a slot
NewToken(toks, input) ==
  [id |-> Len(toks) + 1, patientName |-> input.patientName,
   source |-> input.source, priority |-> input.priority, status |-> WAITING,
   slotId |-> NULL, doctorId |-> input.doctorId, date |-> input.date,
   idempotencyKey |-> input.idempotencyKey, createdAt |-> Len(toks) + 1,
   allocatedAt |-> NULL, completedAt |-> NULL, cancelledAt |-> NULL]

\* the payload of a request differs from the stored row
PayloadDiffers(row, input) ==
  \/ row.patientName # input.patientName
  \/ row.doctorId # input.doctorId
  \/ row.priority # input.priority
  \/ row.source # input.source
  \/ row.date # input.date

----------------------------------------------------------------------------
(* createToken *)

\* the transaction body without the doctor check
createTokenTx_NoDoctorCheck(toks, aud, sl, t, input) ==
  LET existing == FindByKey(toks, input.idempotencyKey)
  IN IF existing # NULL
       THEN [tokens |-> toks, audit |-> aud,
             result |-> Result("createToken", OK, existing,
                          toks[existing].slotId, TRUE, <<>>, 0,
                          IF PayloadDiffers(toks[existing], input)
                            THEN "replay-differs" ELSE "replay")]
     ELSE
       LET token == NewToken(toks, input)
           alloc == allocateToken(Append(toks, token), aud, sl, t, token.id)
           event == AuditEvent("CREATE_TOKEN", token.id, NULL, input.doctorId,
                      [priority |-> input.priority, source |-> input.source,
                       allocated |-> alloc.success])
       IN IF alloc.err # OK
            THEN [tokens |-> toks, audit |-> aud,
                  result |-> Failure("createToken", alloc.err, NULL)]
          ELSE [tokens |-> alloc.tokens,
                audit |-> AuditAppend(alloc.audit, event),
                result |-> Result("createToken", OK, token.id, alloc.slotId,
                             alloc.success, <<>>, 0, alloc.message)]

\* the transaction body on token table toks: the new table, the audit events
\* written and the result
createTokenTx(toks, aud, sl, t, input) ==
  LET existing == FindByKey(toks, input.idempotencyKey)
  IN IF existing # NULL
       THEN [tokens |-> toks, audit |-> aud,
             result |-> Result("createToken", OK, existing,
                          toks[existing].slotId, TRUE, <<>>, 0,
                          IF PayloadDiffers(toks[existing], input)
                            THEN "replay-differs" ELSE "replay")]
     ELSE IF input.doctorId \notin ActiveDoctors
       THEN [tokens |-> toks, audit |-> aud,
             result |-> Failure("createToken", "DOCTOR_NOT_FOUND", NULL)]
     ELSE
       LET token == NewToken(toks, input)
           alloc == allocateToken(Append(toks, token), aud, sl, t, token.id)
           event == AuditEvent("CREATE_TOKEN", token.id, NULL, input.doctorId,
                      [priority |-> input.priority, source |-> input.source,
                       allocated |-> alloc.success])
       IN IF alloc.err # OK
            THEN [tokens |-> toks, audit |-> aud,
                  result |-> Failure("createToken", alloc.err, NULL)]
          ELSE [tokens |-> alloc.tokens,
                audit |-> AuditAppend(alloc.audit, event),
                result |-> Result("createToken", OK, token.id, alloc.slotId,
                             alloc.success, <<>>, 0, alloc.message)]

createToken(input) ==
  /\ \/ KeyInUse(tokens, input.idempotencyKey)
     \/ input.idempotencyKey = Len(tokens) + 1 /\ Len(tokens) < MaxTokens
  /\ LET r == createTokenTx(tokens, <<>>, slots, now, input)
     IN Commit([r EXCEPT !.result.key = input.idempotencyKey])
  /\ UNCHANGED <<slots, now, txs>>

----------------------------------------------------------------------------
(* Reallocation after cancelToken and markNoShow *)

\* position of a priority in the Priority column order, used by
\* orderBy priority asc
PriorityColumnOrder(priority) ==
  CASE priority = EMERGENCY -> 1
    [] priority = PAID -> 2
    [] priority = FOLLOWUP -> 3
    [] priority = ONLINE -> 4
    [] priority = WALKIN -> 5

\* a set of token ids ordered by createdAt asc alone
RECURSIVE OrderByPriority_CreatedAtOnly(_, _)
OrderByPriority_CreatedAtOnly(toks, S) ==
  IF S = {} THEN <<>>
  ELSE LET first == CHOOSE i \in S : \A j \in S :
                      toks[i].createdAt <= toks[j].createdAt
       IN <<first>> \o OrderByPriority_CreatedAtOnly(toks, S \ {first})

\* a set of token ids ordered by priority asc, then createdAt asc
RECURSIVE OrderByPriority(_, _)
OrderByPriority(toks, S) ==
  IF S = {} THEN <<>>
  ELSE LET first == CHOOSE i \in S : \A j \in S :
             \/ PriorityColumnOrder(toks[i].priority)
                  < PriorityColumnOrder(toks[j].priority)
             \/ /\ toks[i].priority = toks[j].priority
                /\ toks[i].createdAt <= toks[j].createdAt
       IN <<first>> \o OrderByPriority(toks, S \ {first})

\* tx.token.findMany of the waiting tokens of a doctor and date; onlyWalkIn
\* adds source = WALKIN to the where clause
WaitingTokens(toks, doctorId, date, onlyWalkIn) ==
  OrderByPriority(toks, {i \in TokenIds(toks) :
                           /\ toks[i].doctorId = doctorId
                           /\ toks[i].date = date
                           /\ toks[i].status = WAITING
                           /\ (onlyWalkIn => toks[i].source = WALKIN)})

\* the candidates without the fallback
Candidates_NoFallback(toks, sl, t, token) ==
  LET slot == sl[token.slotId]
  IN WaitingTokens(toks, token.doctorId, token.date,
                   shouldPrioritizeWalkIn(slot.startTime, slot.endTime,
                                          slot.date, t))

\* the candidates of a reallocation: walk-ins only for an imminent slot, with
\* the fallback to every waiting token when there is no walk-in
Candidates(toks, sl, t, token) ==
  LET slot == sl[token.slotId]
      prioritizeWalkIn == shouldPrioritizeWalkIn(slot.startTime, slot.endTime,
                                                 slot.date, t)
      waitingTokens == WaitingTokens(toks, token.doctorId, token.date,
                                     prioritizeWalkIn)
  IN IF Len(waitingTokens) = 0 /\ prioritizeWalkIn
       THEN WaitingTokens(toks, token.doctorId, token.date, FALSE)
       ELSE waitingTokens

\* the loop "for (const waitingToken of waitingTokens)" from position i on;
\* moved collects movedTokens
RECURSIVE ReallocLoop(_, _, _, _, _, _, _)
ReallocLoop(toks, aud, sl, t, waitingTokens, i, moved) ==
  IF i > Len(waitingTokens)
    THEN [err |-> OK, tokens |-> toks, audit |-> aud, moved |-> moved]
  ELSE LET r == allocateToken(toks, aud, sl, t, waitingTokens[i])
       IN IF r.err # OK
            THEN [err |-> r.err, tokens |-> toks, audit |-> aud,
                  moved |-> moved]
          ELSE ReallocLoop(r.tokens, r.audit, sl, t, waitingTokens, i + 1,
                 IF r.success THEN Append(moved, waitingTokens[i]) ELSE moved)

\* the shared body with a reallocation attempted for a token without a slot too
Release_AlwaysRefill(op, operation, toks, aud, sl, t, token) ==
  IF token.slotId # NULL
       /\ hasSlotEnded(sl[token.slotId].endTime, sl[token.slotId].date, t)
    THEN [tokens |-> toks,
          audit |-> AuditAppend(aud, AuditEvent(operation, token.id,
                      token.slotId, token.doctorId,
                      [movedTokensCount |-> 0,
                       reason |-> "Slot already ended"])),
          result |-> Result(op, OK, token.id, token.slotId, TRUE, <<>>, 0,
                            "slot already ended, no reallocation")]
  ELSE
    LET r == ReallocLoop(toks, aud, sl, t,
                         WaitingTokens(toks, token.doctorId, token.date, FALSE),
                         1, <<>>)
    IN IF r.err # OK
         THEN [tokens |-> toks, audit |-> aud, result |-> Failure(op, r.err, token.id)]
       ELSE [tokens |-> r.tokens,
             audit |-> AuditAppend(r.audit, AuditEvent(operation, token.id,
                         token.slotId, token.doctorId,
                         [movedTokensCount |-> Len(r.moved)])),
             result |-> Result(op, OK, token.id, token.slotId, TRUE, r.moved,
                               0, "")]

\* the body shared by cancelToken and markNoShow once the token row has been
\* updated: token is the row as read before the update, toks the table after it
Release(op, operation, toks, aud, sl, t, token) ==
  IF token.slotId = NULL
    THEN [tokens |-> toks,
          audit |-> AuditAppend(aud, AuditEvent(operation, token.id,
                      token.slotId, token.doctorId, [movedTokensCount |-> 0])),
          result |-> Result(op, OK, token.id, NULL, TRUE, <<>>, 0, "")]
  ELSE IF hasSlotEnded(sl[token.slotId].endTime, sl[token.slotId].date, t)
    THEN [tokens |-> toks,
          audit |-> AuditAppend(aud, AuditEvent(operation, token.id,
                      token.slotId, token.doctorId,
                      [movedTokensCount |-> 0,
                       reason |-> "Slot already ended"])),
          result |-> Result(op, OK, token.id, token.slotId, TRUE, <<>>, 0,
                            "slot already ended, no reallocation")]
  ELSE
    LET r == ReallocLoop(toks, aud, sl, t, Candidates(toks, sl, t, token),
                         1, <<>>)
    IN IF r.err # OK
         THEN [tokens |-> toks, audit |-> aud, result |-> Failure(op, r.err, token.id)]
       ELSE [tokens |-> r.tokens,
             audit |-> AuditAppend(r.audit, AuditEvent(operation, token.id,
                         token.slotId, token.doctorId,
                         [movedTokensCount |-> Len(r.moved)])),
             result |-> Result(op, OK, token.id, token.slotId, TRUE, r.moved,
                               0, "")]

----------------------------------------------------------------------------
(* cancelToken *)

cancelTokenTx(toks, aud, sl, t, tokenId) ==
  IF tokenId \notin TokenIds(toks)
    THEN [tokens |-> toks, audit |-> aud,
          result |-> Failure("cancelToken", "TOKEN_NOT_FOUND", tokenId)]
  ELSE IF toks[tokenId].status = CANCELLED
    THEN [tokens |-> toks, audit |-> aud,
          result |-> Failure("cancelToken", "ALREADY_CANCELLED", tokenId)]
  ELSE IF toks[tokenId].status = COMPLETED
    THEN [tokens |-> toks, audit |-> aud,
          result |-> Failure("cancelToken", "CANNOT_CANCEL_COMPLETED", tokenId)]
  ELSE
    LET updated == [toks EXCEPT ![tokenId].status = CANCELLED,
                                ![tokenId].slotId = NULL,
                                ![tokenId].cancelledAt = SET]
        r == Release("cancelToken", "CANCEL_TOKEN", updated, aud, sl, t,
                     toks[tokenId])
    IN IF r.result.code # OK
         THEN [tokens |-> toks, audit |-> aud, result |-> r.result]
         ELSE r

cancelToken(tokenId) ==
  /\ Commit(cancelTokenTx(tokens, <<>>, slots, now, tokenId))
  /\ UNCHANGED <<slots, now, txs>>

----------------------------------------------------------------------------
(* markNoShow *)

\* markNoShow with an update that leaves slotId in place
markNoShowTx_KeepsSlot(toks, aud, sl, t, tokenId) ==
  IF tokenId \notin TokenIds(toks)
    THEN [tokens |-> toks, audit |-> aud,
          result |-> Failure("markNoShow", "TOKEN_NOT_FOUND", tokenId)]
  ELSE IF toks[tokenId].status # ALLOCATED
    THEN [tokens |-> toks, audit |-> aud,
          result |-> Failure("markNoShow", "INVALID_STATUS", tokenId)]
  ELSE
    LET updated == [toks EXCEPT ![tokenId].status = NO_SHOW]
        r == Release("markNoShow", "NO_SHOW", updated, aud, sl, t,
                     toks[tokenId])
    IN IF r.result.code # OK
         THEN [tokens |-> toks, audit |-> aud, result |-> r.result]
         ELSE r

markNoShowTx(toks, aud, sl, t, tokenId) ==
  IF tokenId \notin TokenIds(toks)
    THEN [tokens |-> toks, audit |-> aud,
          result |-> Failure("markNoShow", "TOKEN_NOT_FOUND", tokenId)]
  ELSE IF toks[tokenId].status # ALLOCATED
    THEN [tokens |-> toks, audit |-> aud,
          result |-> Failure("markNoShow", "INVALID_STATUS", tokenId)]
  ELSE
    LET updated == [toks EXCEPT ![tokenId].status = NO_SHOW,
                                ![tokenId].slotId = NULL]
        r == Release("markNoShow", "NO_SHOW", updated, aud, sl, t,
                     toks[tokenId])
    IN IF r.result.code # OK
         THEN [tokens |-> toks, audit |-> aud, result |-> r.result]
         ELSE r

markNoShow(tokenId) ==
  /\ Commit(markNoShowTx(tokens, <<>>, slots, now, tokenId))
  /\ UNCHANGED <<slots, now, txs>>

----------------------------------------------------------------------------
(* completeToken *)

\* the update writes status and completedAt only: slotId is left as it is
\* completeToken without its status check
completeTokenTx_NoStatusCheck(toks, aud, tokenId) ==
  IF tokenId \notin TokenIds(toks)
    THEN [tokens |-> toks, audit |-> aud,
          result |-> Failure("completeToken", "TOKEN_NOT_FOUND", tokenId)]
  ELSE [tokens |-> [toks EXCEPT ![tokenId].status = COMPLETED,
                                ![tokenId].completedAt = SET],
        audit |-> AuditAppend(aud, AuditEvent("COMPLETE_TOKEN", tokenId,
                    toks[tokenId].slotId, toks[tokenId].doctorId, [none |-> TRUE])),
        result |-> Result("completeToken", OK, tokenId, toks[tokenId].slotId,
                          TRUE, <<>>, 0, "")]

\* completeToken that hands the seat to the first waiting token
completeTokenTx_Refills(toks, aud, tokenId) ==
  IF tokenId \notin TokenIds(toks)
    THEN [tokens |-> toks, audit |-> aud,
          result |-> Failure("completeToken", "TOKEN_NOT_FOUND", tokenId)]
  ELSE IF toks[tokenId].status # ALLOCATED
    THEN [tokens |-> toks, audit |-> aud,
          result |-> Failure("completeToken", "INVALID_STATUS", tokenId)]
  ELSE
    LET done == [toks EXCEPT ![tokenId].status = COMPLETED,
                             ![tokenId].completedAt = SET]
        waiting == WaitingTokens(done, toks[tokenId].doctorId,
                                 toks[tokenId].date, FALSE)
    IN [tokens |-> IF waiting = <<>> THEN done
                   ELSE [done EXCEPT ![waiting[1]].status = ALLOCATED,
                                     ![waiting[1]].slotId = toks[tokenId].slotId,
                                     ![waiting[1]].allocatedAt = SET],
        audit |-> AuditAppend(aud, AuditEvent("COMPLETE_TOKEN", tokenId,
                    toks[tokenId].slotId, toks[tokenId].doctorId, [none |-> TRUE])),
        result |-> Result("completeToken", OK, tokenId, toks[tokenId].slotId,
                          TRUE, <<>>, 0, "")]

completeTokenTx(toks, aud, tokenId) ==
  IF tokenId \notin TokenIds(toks)
    THEN [tokens |-> toks, audit |-> aud,
          result |-> Failure("completeToken", "TOKEN_NOT_FOUND", tokenId)]
  ELSE IF toks[tokenId].status # ALLOCATED
    THEN [tokens |-> toks, audit |-> aud,
          result |-> Failure("completeToken", "INVALID_STATUS", tokenId)]
  ELSE [tokens |-> [toks EXCEPT ![tokenId].status = COMPLETED,
                                ![tokenId].completedAt = SET],
        audit |-> AuditAppend(aud, AuditEvent("COMPLETE_TOKEN", tokenId,
                    toks[tokenId].slotId, toks[tokenId].doctorId, [none |-> TRUE])),
        result |-> Result("completeToken", OK, tokenId, toks[tokenId].slotId,
                          TRUE, <<>>, 0, "")]

completeToken(tokenId) ==
  /\ Commit(completeTokenTx(tokens, <<>>, tokenId))
  /\ UNCHANGED <<slots, now, txs>>

----------------------------------------------------------------------------
(* expireWaitingTokens *)

\* a where clause without the doctor
ExpireSet_AnyDoctor(toks, doctorId, date) ==
  {i \in TokenIds(toks) : toks[i].date = date /\ toks[i].status = WAITING}

\* prisma.token.updateMany: the rows the where clause selects
ExpireSet(toks, doctorId, date) ==
  {i \in TokenIds(toks) : /\ toks[i].doctorId = doctorId
                          /\ toks[i].date = date
                          /\ toks[i].status = WAITING}

\* updateMany writes the status column only
ExpireRows(toks, doctorId, date) ==
  [i \in TokenIds(toks) |->
     IF i \in ExpireSet(toks, doctorId, date)
       THEN [toks[i] EXCEPT !.status = EXPIRED]
       ELSE toks[i]]

\* the dates an expiry may name: those of the tokens and a day no token is for
ExpireDates == Dates \cup {1}

expireWaitingTokens(doctorId, date) ==
  /\ AuditCount(audit, "EXPIRE_TOKENS") < MaxExpire
  /\ LET count == Cardinality(ExpireSet(tokens, doctorId, date))
     IN Commit([tokens |-> ExpireRows(tokens, doctorId, date),
                audit |-> <<AuditEvent("EXPIRE_TOKENS", NULL, NULL, doctorId,
                              [date |-> date, expiredCount |-> count])>>,
                result |-> Result("expireWaitingTokens", OK, NULL, NULL, TRUE,
                                  <<>>, count, "")])
  /\ UNCHANGED <<slots, now, txs>>

----------------------------------------------------------------------------
(* The clock *)

Tick ==
  /\ now < MaxNow
  /\ now' = now + 1
  /\ last' = Result("tick", OK, NULL, NULL, TRUE, <<>>, 0, "")
  /\ UNCHANGED <<tokens, audit, slots, txs>>

----------------------------------------------------------------------------
(* Operations run one at a time *)

Init ==
  /\ tokens = <<>>
  /\ audit = EmptyBag
  /\ slots = SlotTable
  /\ now = 0
  /\ last = Result("init", OK, NULL, NULL, TRUE, <<>>, 0, "")
  /\ txs = <<>>

Next ==
  \/ \E input \in Inputs : createToken(input)
  \/ \E tokenId \in RequestIds : cancelToken(tokenId)
  \/ \E tokenId \in RequestIds : markNoShow(tokenId)
  \/ \E tokenId \in RequestIds : completeToken(tokenId)
  \/ \E doctorId \in Doctors, date \in ExpireDates : expireWaitingTokens(doctorId, date)
  \/ Tick

Spec == Init /\ [][Next]_vars

----------------------------------------------------------------------------
(* Concurrent createToken transactions.  prisma.$transaction is called without
   an isolation level and no statement takes a row lock, so each transaction
   runs under the READ COMMITTED default of PostgreSQL: every statement reads
   the committed rows and the transaction's own writes, and a row a
   transaction has written is invisible to the others until it commits.
   tokens and audit hold the committed rows; txs[p] holds what transaction p
   has written so far. *)

\* number of createToken transactions in flight
NumTx == 2

Procs == 1 .. NumTx

NoInput == CreateTokenInput("", "", 0, "", "", NULL)

NoRow == [NewToken(<<>>, NoInput) EXCEPT !.id = NULL]

\* a transaction that has not started: pc is its position in createToken, row
\* the token row it has inserted, updates the committed rows it has rewritten,
\* events the audit rows it has written, result what it returned or threw
IdleTx ==
  [pc |-> "idle", input |-> NoInput, row |-> NoRow, updates |-> <<>>,
   events |-> <<>>,
   result |-> Result("createToken", "PENDING", NULL, NULL, FALSE, <<>>, 0, "")]

\* the transaction ends, by return or by throw
Finish(tx, result) == [tx EXCEPT !.pc = "done", !.result = result]

\* the existence check and the doctor check: both read committed rows only
CtFind(p, input) ==
  /\ txs[p].pc = "idle"
  /\ LET existing == FindByKey(tokens, input.idempotencyKey)
         tx == [txs[p] EXCEPT !.input = input]
     IN txs' = [txs EXCEPT ![p] =
          IF existing # NULL \/ input.doctorId \notin ActiveDoctors
            THEN Finish(tx, createTokenTx(tokens, <<>>, slots, now, input).result)
            ELSE [tx EXCEPT !.pc = "insert"]]
  /\ UNCHANGED <<tokens, audit, slots, now, last>>

\* another transaction holds an uncommitted row with the key: the insert waits
\* on the unique index until that transaction ends
InsertBlocked(p) ==
  \E q \in Procs \ {p} :
    /\ txs[q].pc \in {"allocate", "commit"}
    /\ txs[q].input.idempotencyKey = txs[p].input.idempotencyKey

\* tx.token.create under the unique constraint on idempotencyKey: a committed
\* row with the key makes the insert throw P2002, which errorHandler turns
\* into DUPLICATE_ENTRY
CtInsert(p) ==
  /\ txs[p].pc = "insert"
  /\ IF KeyInUse(tokens, txs[p].input.idempotencyKey)
       THEN txs' = [txs EXCEPT ![p] =
              Finish(@, Failure("createToken", "DUPLICATE_ENTRY", NULL))]
       ELSE /\ ~InsertBlocked(p)
            /\ txs' = [txs EXCEPT ![p] =
                 [@ EXCEPT !.pc = "allocate",
                           !.row = NewToken(tokens, txs[p].input)]]
  /\ UNCHANGED <<tokens, audit, slots, now, last>>

\* allocateToken inside the transaction: it reads the committed rows and the
\* transaction's own row, and what it writes stays with the transaction
CtAllocate(p) ==
  /\ txs[p].pc = "allocate"
  /\ LET own == Len(tokens) + 1
         input == txs[p].input
         view == Append(tokens, [txs[p].row EXCEPT !.id = own])
         alloc == allocateToken(view, <<>>, slots, now, own)
         event == AuditEvent("CREATE_TOKEN", own, NULL, input.doctorId,
                    [priority |-> input.priority, source |-> input.source,
                     allocated |-> alloc.success])
     IN txs' = [txs EXCEPT ![p] =
          IF alloc.err # OK
            THEN Finish(@, Failure("createToken", alloc.err, NULL))
            ELSE [@ EXCEPT
                   !.pc = "commit",
                   !.row = alloc.tokens[own],
                   !.updates = SelectSeq(SubSeq(alloc.tokens, 1, Len(tokens)),
                                         LAMBDA r : r # tokens[r.id]),
                   !.events = AuditAppend(alloc.audit, event),
                   !.result = Result("createToken", OK, own, alloc.slotId,
                                alloc.success, <<>>, 0, alloc.message)]]
  /\ UNCHANGED <<tokens, audit, slots, now, last>>

\* the committed rows with the rewritten ones replaced
ApplyUpdates(toks, updates) ==
  [i \in DOMAIN toks |->
     IF \E k \in DOMAIN updates : updates[k].id = i
       THEN updates[CHOOSE k \in DOMAIN updates : updates[k].id = i]
       ELSE toks[i]]

\* audit events with token id old renamed to id
Renamed(events, old, id) ==
  [k \in DOMAIN events |->
     IF events[k].tokenId = old THEN [events[k] EXCEPT !.tokenId = id]
     ELSE events[k]]

\* the transaction returns and commits: its row takes the next place in the
\* committed table
CtCommit(p) ==
  /\ txs[p].pc = "commit"
  /\ LET id == Len(tokens) + 1
         tx == txs[p]
     IN /\ tokens' = Append(ApplyUpdates(tokens, tx.updates),
                            [tx.row EXCEPT !.id = id])
        /\ audit' = AuditCommit(audit, Renamed(tx.events, tx.row.id, id))
        /\ txs' = [txs EXCEPT ![p] =
             Finish(tx, [tx.result EXCEPT !.tokenId = id])]
  /\ UNCHANGED <<slots, now, last>>

InitConc ==
  /\ tokens = <<>>
  /\ audit = EmptyBag
  /\ slots = SlotTable
  /\ now = 0
  /\ last = Result("init", OK, NULL, NULL, TRUE, <<>>, 0, "")
  /\ txs = [p \in Procs |-> IdleTx]

NextConc ==
  \E p \in Procs :
    \/ \E input \in Inputs : CtFind(p, input)
    \/ CtInsert(p)
    \/ CtAllocate(p)
    \/ CtCommit(p)

SpecConc == InitConc /\ [][NextConc]_vars

----------------------------------------------------------------------------
(* Operations on a populated table.  The table of SpecBackfill is the one a
   run of createToken calls leaves behind; cancelToken, markNoShow and
   completeToken then act on it while the clock advances. *)

\* number of tokens created before the operations on them
MaxQueue == 4

\* hours at which the tokens may have been created
MaxStart == 2

\* number of cancelToken, markNoShow and completeToken calls that succeed
MaxOps == 2

QueueIds == 1 .. MaxQueue

\* payloads of the queued requests: source and priority are validated
\* independently, so a walk-in may hold any priority
QueuePayloads ==
  { <<"ann", "d1", PAID, WALKIN>>,
    <<"ann", "d1", ONLINE, ONLINE>>,
    <<"ann", "d1", WALKIN, WALKIN>> }

\* the tables after createToken has run, at hour t, for each payload of queue
\* in turn, each with a key of its own
RECURSIVE CreateAll(_, _, _, _)
CreateAll(toks, table, t, queue) ==
  IF queue = <<>> THEN [tokens |-> toks, audit |-> table]
  ELSE LET p == Head(queue)
           input == CreateTokenInput(p[1], p[2], 0, p[4], p[3], Len(toks) + 1)
           r == createTokenTx(toks, <<>>, SlotTable, t, input)
       IN CreateAll(r.tokens, AuditCommit(table, r.audit), t, Tail(queue))

InitBackfill ==
  \E t \in 0 .. MaxStart, queue \in [QueueIds -> QueuePayloads] :
    LET created == CreateAll(<<>>, EmptyBag, t, queue)
    IN /\ tokens = created.tokens
       /\ audit = created.audit
       /\ slots = SlotTable
       /\ now = t
       /\ last = Result("init", OK, NULL, NULL, TRUE, <<>>, 0, "")
       /\ txs = <<>>

\* number of calls that have succeeded, each of which wrote one audit row
Succeeded(table) ==
  AuditCount(table, "CANCEL_TOKEN") + AuditCount(table, "NO_SHOW")
    + AuditCount(table, "COMPLETE_TOKEN")

NextBackfill ==
  \/ \E tokenId \in QueueIds : Succeeded(audit) < MaxOps /\ cancelToken(tokenId)
  \/ \E tokenId \in QueueIds : Succeeded(audit) < MaxOps /\ markNoShow(tokenId)
  \/ \E tokenId \in QueueIds : Succeeded(audit) < MaxOps /\ completeToken(tokenId)
  \/ Tick

SpecBackfill == InitBackfill /\ [][NextBackfill]_vars

----------------------------------------------------------------------------
(* expireWaitingTokens statement by statement.  The function calls
   prisma.token.updateMany and prisma.auditLog.create on the client itself,
   outside any transaction: each statement commits on its own, other
   operations run between the two, and a fault after the first leaves its
   rows committed.  txs holds the call between its two statements. *)

\* prisma.token.updateMany: the rows are EXPIRED once the statement returns
ExpUpdateMany(doctorId, date) ==
  /\ txs = <<>>
  /\ AuditCount(audit, "EXPIRE_TOKENS") < MaxExpire
  /\ tokens' = ExpireRows(tokens, doctorId, date)
  /\ txs' = <<[pc |-> "audit", doctorId |-> doctorId, date |-> date,
               count |-> Cardinality(ExpireSet(tokens, doctorId, date))]>>
  /\ UNCHANGED <<audit, slots, now, last>>

\* prisma.auditLog.create, then return result.count
ExpAuditCreate ==
  /\ txs # <<>>
  /\ LET call == txs[1]
         event == AuditEvent("EXPIRE_TOKENS", NULL, NULL, call.doctorId,
                    [date |-> call.date, expiredCount |-> call.count])
     IN /\ audit' = AuditCommit(audit, <<event>>)
        /\ last' = [Result("expireWaitingTokens", OK, NULL, NULL, TRUE, <<>>,
                           call.count, "")
                      EXCEPT !.events = <<event>>]
  /\ txs' = <<>>
  /\ UNCHANGED <<tokens, slots, now>>

\* the audit insert fails or the process stops before it: the call ends with
\* an error and nothing is undone
ExpFault ==
  /\ txs # <<>>
  /\ last' = Failure("expireWaitingTokens", "DATABASE_ERROR", NULL)
  /\ txs' = <<>>
  /\ UNCHANGED <<tokens, audit, slots, now>>

NextExpire ==
  \/ \E input \in Inputs : createToken(input)
  \/ \E doctorId \in Doctors, date \in ExpireDates : ExpUpdateMany(doctorId, date)
  \/ ExpAuditCreate
  \/ ExpFault
  \/ Tick

SpecExpire == Init /\ [][NextExpire]_vars

----------------------------------------------------------------------------
(* Concurrent cancelToken, markNoShow and completeToken transactions on a
   populated table.  Each transaction reads the token with findUnique, tests
   it, writes it with tx.token.update where id, and runs the rest of its body.
   No statement locks the row it reads; an update waits for the transaction
   that has written the row and then, under READ COMMITTED, writes its columns
   over the row that transaction committed.  txs[p] holds the position of
   transaction p and the row it has read. *)

EngineOps == {"cancelToken", "markNoShow", "completeToken"}

\* a transaction that has not started: token is the row findUnique returned
IdleOp ==
  [pc |-> "idle", op |-> "", tokenId |-> NULL, token |-> NoRow,
   result |-> Result("", "PENDING", NULL, NULL, FALSE, <<>>, 0, "")]

\* the tests each operation applies to the row it has read: the code of the
\* error thrown, or OK
Precondition(op, toks, tokenId) ==
  IF tokenId \notin TokenIds(toks) THEN "TOKEN_NOT_FOUND"
  ELSE IF op = "cancelToken"
    THEN IF toks[tokenId].status = CANCELLED THEN "ALREADY_CANCELLED"
         ELSE IF toks[tokenId].status = COMPLETED
           THEN "CANNOT_CANCEL_COMPLETED"
         ELSE OK
  ELSE IF toks[tokenId].status # ALLOCATED THEN "INVALID_STATUS"
  ELSE OK

\* tx.token.update where id: the data of each operation written over the row
UpdatedRow(op, row) ==
  CASE op = "cancelToken" -> [row EXCEPT !.status = CANCELLED, !.slotId = NULL,
                                         !.cancelledAt = SET]
    [] op = "markNoShow" -> [row EXCEPT !.status = NO_SHOW, !.slotId = NULL]
    [] op = "completeToken" -> [row EXCEPT !.status = COMPLETED,
                                           !.completedAt = SET]

\* the audit operation each engine operation writes
AuditKind(op) ==
  CASE op = "cancelToken" -> "CANCEL_TOKEN"
    [] op = "markNoShow" -> "NO_SHOW"
    [] op = "completeToken" -> "COMPLETE_TOKEN"

\* findUnique and the tests on the row it returned
RtFind(p, op, tokenId) ==
  /\ txs[p].pc = "idle"
  /\ LET code == Precondition(op, tokens, tokenId)
         tx == [txs[p] EXCEPT !.op = op, !.tokenId = tokenId]
     IN txs' = [txs EXCEPT ![p] =
          IF code # OK
            THEN [tx EXCEPT !.pc = "done", !.result = Failure(op, code, tokenId)]
            ELSE [tx EXCEPT !.pc = "update", !.token = tokens[tokenId]]]
  /\ UNCHANGED <<tokens, audit, slots, now, last>>

\* transaction q has written row id and has not committed: it holds the row
HoldsRow(q, id) == txs[q].pc = "rest" /\ txs[q].tokenId = id

\* tx.token.update where id: it waits while another transaction holds the row
RtUpdate(p) ==
  /\ txs[p].pc = "update"
  /\ \A q \in Procs \ {p} : ~HoldsRow(q, txs[p].tokenId)
  /\ txs' = [txs EXCEPT ![p].pc = "rest"]
  /\ UNCHANGED <<tokens, audit, slots, now, last>>

\* the rest of the body on the committed rows with the transaction's own
\* write: the reallocation decided on the row read by findUnique, the audit
\* event, and the commit
RestOf(tx, toks, sl, t) ==
  LET view == [toks EXCEPT ![tx.tokenId] = UpdatedRow(tx.op, toks[tx.tokenId])]
  IN IF tx.op = "completeToken"
       THEN [tokens |-> view,
             audit |-> <<AuditEvent("COMPLETE_TOKEN", tx.tokenId,
                           tx.token.slotId, tx.token.doctorId, [none |-> TRUE])>>,
             result |-> Result("completeToken", OK, tx.tokenId,
                               tx.token.slotId, TRUE, <<>>, 0, "")]
       ELSE LET r == Release(tx.op, AuditKind(tx.op), view, <<>>, sl, t, tx.token)
            IN IF r.result.code # OK
                 THEN [tokens |-> toks, audit |-> <<>>, result |-> r.result]
                 ELSE r

\* the rows the rest of the body writes
Written(before, after) == {i \in TokenIds(before) : after[i] # before[i]}

RtRest(p) ==
  /\ txs[p].pc = "rest"
  /\ \E r \in {RestOf(txs[p], tokens, slots, now)} :
        /\ \A q \in Procs \ {p} : \A i \in Written(tokens, r.tokens) :
             ~HoldsRow(q, i)
        /\ tokens' = r.tokens
        /\ audit' = AuditCommit(audit, r.audit)
        /\ txs' = [txs EXCEPT ![p] =
             [@ EXCEPT !.pc = "done",
                       !.result = [r.result EXCEPT !.events = r.audit]]]
  /\ UNCHANGED <<slots, now, last>>

InitRelease ==
  \E t \in 0 .. MaxStart, queue \in [QueueIds -> QueuePayloads] :
    LET created == CreateAll(<<>>, EmptyBag, t, queue)
    IN /\ tokens = created.tokens
       /\ audit = created.audit
       /\ slots = SlotTable
       /\ now = t
       /\ last = Result("init", OK, NULL, NULL, TRUE, <<>>, 0, "")
       /\ txs = [p \in Procs |-> IdleOp]

NextRelease ==
  \E p \in Procs :
    \/ \E op \in EngineOps, tokenId \in QueueIds : RtFind(p, op, tokenId)
    \/ RtUpdate(p)
    \/ RtRest(p)

SpecRelease == InitRelease /\ [][NextRelease]_vars

----------------------------------------------------------------------------
(* The slot routes: POST /api/slots (validateCreateSlot, createSlot) and
   PATCH /api/slots/:slotId/capacity (updateSlotCapacity), run one request at
   a time together with createToken. *)

\* rows the slot table may hold
MaxSlots == 5

\* a field the request body does not carry
UNDEFINED == -2

\* capacities a request body may carry
BodyCapacities == {UNDEFINED, 0, 1, 2}

\* paidCap values a request body may carry; null removes the cap
BodyPaidCaps == {UNDEFINED, NULL, 2}

\* followUpCap values a request body may carry
BodyFollowUpCaps == {UNDEFINED, 2}

SlotBody(capacity, paidCap, followUpCap) ==
  [capacity |-> capacity, paidCap |-> paidCap, followUpCap |-> followUpCap]

SlotBodies ==
  {SlotBody(c, p, f) : c \in BodyCapacities, p \in BodyPaidCaps,
                       f \in BodyFollowUpCaps}

\* slot ids a PATCH request may name: slots of doctor d1, the slot a POST
\* request creates, and an id no slot has
PatchIds == {1, 2, MaxSlots, MaxSlots + 1}

\* the token requests of this specification
SlotInputs ==
  {i \in Inputs : i.doctorId = "d1" /\ i.priority \in {PAID, WALKIN}}

\* validateCreateSlot on a body whose doctorId, date and times are valid: the
\* code of the error thrown, or OK
validateCreateSlot(body) ==
  IF body.capacity = UNDEFINED \/ body.capacity = NULL \/ body.capacity <= 0
    THEN "INVALID_CAPACITY"
  ELSE IF body.paidCap # UNDEFINED /\ (body.paidCap = NULL \/ body.paidCap < 0)
    THEN "INVALID_PAID_CAP"
  ELSE IF body.paidCap # UNDEFINED /\ body.paidCap > body.capacity
    THEN "PAID_CAP_EXCEEDS_CAPACITY"
  ELSE IF body.followUpCap # UNDEFINED
          /\ (body.followUpCap = NULL \/ body.followUpCap < 0)
    THEN "INVALID_FOLLOWUP_CAP"
  ELSE IF body.followUpCap # UNDEFINED /\ body.followUpCap > body.capacity
    THEN "FOLLOWUP_CAP_EXCEEDS_CAPACITY"
  ELSE OK

\* prisma.slot.create: a cap the body does not carry is stored as null
NewSlot(sl, doctorId, date, startTime, endTime, body) ==
  [id |-> Len(sl) + 1, doctorId |-> doctorId, date |-> date,
   startTime |-> startTime, endTime |-> endTime, capacity |-> body.capacity,
   paidCap |-> IF body.paidCap = UNDEFINED THEN NULL ELSE body.paidCap,
   followUpCap |-> IF body.followUpCap = UNDEFINED THEN NULL
                   ELSE body.followUpCap,
   isActive |-> TRUE]

\* POST /api/slots for doctor d1: the validator, then the handler
createSlot(body) ==
  /\ Len(slots) < MaxSlots
  /\ LET code == validateCreateSlot(body)
     IN IF code # OK
          THEN /\ slots' = slots
               /\ last' = Failure("createSlot", code, NULL)
          ELSE /\ slots' = Append(slots, NewSlot(slots, "d1", 0, 0, 1, body))
               /\ last' = Result("createSlot", OK, NULL, Len(slots) + 1, TRUE,
                                 <<>>, 0, "Slot created successfully")
  /\ UNCHANGED <<tokens, audit, now, txs>>

\* a value of the body is falsy: undefined, null or 0
Falsy(v) == v \in {UNDEFINED, NULL, 0}

\* the data of prisma.slot.update in updateSlotCapacity
SlotUpdate(slot, body) ==
  [slot EXCEPT
     !.capacity = IF Falsy(body.capacity) THEN slot.capacity ELSE body.capacity,
     !.paidCap = IF body.paidCap # UNDEFINED THEN body.paidCap ELSE slot.paidCap,
     !.followUpCap = IF body.followUpCap # UNDEFINED THEN body.followUpCap
                     ELSE slot.followUpCap]

\* PATCH /api/slots/:slotId/capacity
updateSlotCapacity(slotId, body) ==
  /\ IF slotId \notin DOMAIN slots
       THEN /\ slots' = slots
            /\ last' = [Failure("updateSlotCapacity", "HTTP_404", NULL)
                          EXCEPT !.slotId = slotId, !.note = "Slot not found"]
     ELSE LET currentAllocated == Len(AllocatedTokens(tokens, slotId))
          IN IF ~Falsy(body.capacity) /\ body.capacity < currentAllocated
               THEN /\ slots' = slots
                    /\ last' = [Failure("updateSlotCapacity", "HTTP_400", NULL)
                                  EXCEPT !.slotId = slotId,
                                         !.note = "Cannot reduce capacity below current allocated count"]
             ELSE /\ slots' = [slots EXCEPT ![slotId] = SlotUpdate(@, body)]
                  /\ last' = Result("updateSlotCapacity", OK, NULL, slotId,
                                    TRUE, <<>>, 0, "Slot updated successfully")
  /\ UNCHANGED <<tokens, audit, now, txs>>

NextSlots ==
  \/ \E input \in SlotInputs : createToken(input)
  \/ \E body \in SlotBodies : createSlot(body)
  \/ \E slotId \in PatchIds, body \in SlotBodies : updateSlotCapacity(slotId, body)

SpecSlots == Init /\ [][NextSlots]_vars

----------------------------------------------------------------------------
(* findLowestPriorityToken on its own: the list of occupants of a full slot
   is built one occupant at a time, with any priority and any createdAt, and
   the function is applied to it.  tokens holds the list; last.tokenId holds
   the id returned. *)

\* longest list of occupants
MaxOccupants == 3

\* createdAt values of the occupants; two occupants may share one
CreatedAts == 1 .. 3

\* an element of the parameter of findLowestPriorityToken
Occupant(id, priority, createdAt) ==
  [id |-> id, priority |-> priority, createdAt |-> createdAt]

\* one more occupant in the list
Occupy(priority, createdAt) ==
  /\ Len(tokens) < MaxOccupants
  /\ tokens' = Append(tokens, Occupant(Len(tokens) + 1, priority, createdAt))
  /\ last' = Result("occupy", OK, NULL, NULL, TRUE, <<>>, 0, "")
  /\ UNCHANGED <<audit, slots, now, txs>>

\* findLowestPriorityToken(tokens) is called
FindLowest ==
  /\ last' = Result("findLowestPriorityToken", OK,
                    findLowestPriorityToken(tokens), NULL, TRUE, <<>>, 0, "")
  /\ UNCHANGED <<tokens, audit, slots, now, txs>>

NextVictim ==
  \/ \E priority \in Priority, createdAt \in CreatedAts :
       Occupy(priority, createdAt)
  \/ FindLowest

SpecVictim == Init /\ [][NextVictim]_vars

----------------------------------------------------------------------------
(* allocateToken on its own: the function is applied to a token of any
   priority, against any table of tokens and any configuration of the two
   slots of a doctor and date. *)

\* rows of the token table
MaxRows == 3

\* priorities of the rows: the one that may displace, one with a cap and the
\* lowest
RowPriorities == {EMERGENCY, PAID, WALKIN}

\* capacities of the slots
RowCapacities == 1 .. 2

\* the slots of the configurations: both of doctor d1, one after the other
ConfigSlotIds == 1 .. 2

\* the slot configurations: any capacity, with or without a paidCap
SlotConfigs ==
  {[s \in ConfigSlotIds |->
      [SlotTable[s] EXCEPT !.capacity = capacity[s], !.paidCap = paidCap[s],
                           !.followUpCap = NULL]] :
     capacity \in [ConfigSlotIds -> RowCapacities],
     paidCap \in [ConfigSlotIds -> {NULL, 1}]}

\* a row of the token table: WAITING without a slot, or ALLOCATED to a slot
Row(id, priority, slotId) ==
  [NewToken(<<>>, CreateTokenInput("ann", "d1", 0, WALKIN, priority, id))
     EXCEPT !.id = id, !.createdAt = id,
            !.status = IF slotId = NULL THEN WAITING ELSE ALLOCATED,
            !.slotId = slotId,
            !.allocatedAt = IF slotId = NULL THEN NULL ELSE SET]

\* the token tables: every row of any priority, waiting or seated
TokenTables ==
  {[i \in 1 .. MaxRows |-> Row(i, priority[i], slotId[i])] :
     priority \in [1 .. MaxRows -> RowPriorities],
     slotId \in [1 .. MaxRows -> {NULL} \cup ConfigSlotIds]}

\* the seats taken in a slot are within its capacity and its paidCap
WithinCaps(toks, sl) ==
  \A s \in DOMAIN sl :
    /\ Len(AllocatedTokens(toks, s)) <= sl[s].capacity
    /\ sl[s].paidCap # NULL
         => CountPriority(AllocatedTokens(toks, s), PAID) <= sl[s].paidCap

InitAllocate ==
  /\ tokens \in TokenTables
  /\ slots \in SlotConfigs
  /\ WithinCaps(tokens, slots)
  /\ audit = EmptyBag
  /\ now = 0
  /\ last = Result("init", OK, NULL, NULL, TRUE, <<>>, 0, "")
  /\ txs = <<>>

\* allocateToken(tx, tokenId) applied to the tables; what it writes is
\* committed when it returns and dropped when it throws
Allocate(tokenId) ==
  /\ \E r \in {allocateToken(tokens, <<>>, slots, now, tokenId)} :
       IF r.err # OK
         THEN /\ last' = Failure("allocateToken", r.err, tokenId)
              /\ UNCHANGED <<tokens, audit>>
       ELSE Commit([tokens |-> r.tokens, audit |-> r.audit,
                    result |-> Result("allocateToken", OK, tokenId, r.slotId,
                                      r.success, <<>>, 0, r.message)])
  /\ UNCHANGED <<slots, now, txs>>

NextAllocate == \E tokenId \in 1 .. MaxRows : Allocate(tokenId)

SpecAllocate == InitAllocate /\ [][NextAllocate]_vars

----------------------------------------------------------------------------
(* Operations on a table that holds EMERGENCY tokens.  The table of
   SpecEmergency is the one a run of createToken calls for doctor d1 leaves
   behind, long enough to fill both slots of the doctor and leave two tokens
   waiting. *)

\* number of tokens created before the operations on them
MaxArrivals == 5

ArrivalIds == 1 .. MaxArrivals

\* the payloads of the createToken calls: patientName, doctorId, priority,
\* source
ArrivalPayloads ==
  { <<"ann", "d1", EMERGENCY, WALKIN>>,
    <<"ann", "d1", WALKIN, WALKIN>> }

InitEmergency ==
  \E t \in 0 .. MaxStart, queue \in [ArrivalIds -> ArrivalPayloads] :
    LET created == CreateAll(<<>>, EmptyBag, t, queue)
    IN /\ tokens = created.tokens
       /\ audit = created.audit
       /\ slots = SlotTable
       /\ now = t
       /\ last = Result("init", OK, NULL, NULL, TRUE, <<>>, 0, "")
       /\ txs = <<>>

NextEmergency ==
  \/ \E tokenId \in ArrivalIds : Succeeded(audit) < MaxOps /\ cancelToken(tokenId)
  \/ \E tokenId \in ArrivalIds : Succeeded(audit) < MaxOps /\ markNoShow(tokenId)
  \/ \E tokenId \in ArrivalIds : Succeeded(audit) < MaxOps /\ completeToken(tokenId)
  \/ Tick

SpecEmergency == InitEmergency /\ [][NextEmergency]_vars

----------------------------------------------------------------------------
(* New arrivals on a populated table.  SpecArrivals starts from the tables of
   SpecBackfill and adds the createToken calls of one more patient to its
   operations. *)

\* the request of the patient who arrives after the table is built: a
\* walk-in of the lowest priority
LateInputs ==
  {CreateTokenInput("bob", "d1", 0, WALKIN, WALKIN, MaxQueue + 1)}

\* createToken called on the populated table: the same transaction, the table
\* holding one row more than the queue at most
Arrival(input) ==
  /\ \/ KeyInUse(tokens, input.idempotencyKey)
     \/ input.idempotencyKey = Len(tokens) + 1 /\ Len(tokens) <= MaxQueue
  /\ LET r == createTokenTx(tokens, <<>>, slots, now, input)
     IN Commit([r EXCEPT !.result.key = input.idempotencyKey])
  /\ UNCHANGED <<slots, now, txs>>

NextArrivals ==
  \/ \E input \in LateInputs : Arrival(input)
  \/ \E tokenId \in QueueIds : Succeeded(audit) < MaxOps /\ cancelToken(tokenId)
  \/ \E tokenId \in QueueIds : Succeeded(audit) < MaxOps /\ markNoShow(tokenId)
  \/ \E tokenId \in QueueIds : Succeeded(audit) < MaxOps /\ completeToken(tokenId)
  \/ Tick

SpecArrivals == InitBackfill /\ [][NextArrivals]_vars

----------------------------------------------------------------------------
(* expireWaitingTokens beside the reallocation of a cancelToken or markNoShow
   transaction.  The transaction runs under READ COMMITTED: each of its
   statements reads the committed rows and its own writes, and its
   tx.token.update where id writes its columns over whatever row is committed
   at that moment.  prisma.token.updateMany of expireWaitingTokens commits on
   its own; it waits for a row the transaction has written and then tests
   its where clause on the row the transaction committed.  txs.rel holds the
   transaction, txs.exp the expireWaitingTokens call. *)

\* a transaction that has not started: token is the row findUnique returned,
\* mine the rows it has written, waiting the ids findMany returned, i the
\* position of the loop over them, cand the row allocateToken has read
IdleRel ==
  [pc |-> "idle", op |-> "", tokenId |-> NULL, token |-> NoRow, mine |-> <<>>,
   waiting |-> <<>>, i |-> 1, cand |-> NoRow, moved |-> <<>>]

\* an expireWaitingTokens call that has not started
IdleExp == [pc |-> "idle", doctorId |-> "", date |-> 0, count |-> 0]

\* the transaction is in flight
InFlight == txs.rel.pc \in {"read", "write", "audit"}

\* the transaction has written row id and has not committed
RelHolds(id) ==
  InFlight /\ \E k \in DOMAIN txs.rel.mine : txs.rel.mine[k].id = id

\* cancelToken and markNoShow up to the loop over waitingTokens: findUnique,
\* the tests on the row, tx.token.update of the row, and the findMany of the
\* candidates when the freed slot has not ended
RelBegin(op, tokenId) ==
  /\ txs.rel.pc = "idle"
  /\ LET code == Precondition(op, tokens, tokenId)
         token == tokens[tokenId]
         view == [tokens EXCEPT ![tokenId] = UpdatedRow(op, token)]
         refill == /\ token.slotId # NULL
                   /\ ~hasSlotEnded(slots[token.slotId].endTime,
                                    slots[token.slotId].date, now)
     IN IF code # OK
          THEN /\ txs' = [txs EXCEPT !.rel.pc = "done", !.rel.op = op,
                                     !.rel.tokenId = tokenId]
               /\ last' = Failure(op, code, tokenId)
          ELSE /\ txs' = [txs EXCEPT !.rel =
                    [IdleRel EXCEPT
                       !.pc = IF refill THEN "read" ELSE "audit",
                       !.op = op, !.tokenId = tokenId, !.token = token,
                       !.mine = <<UpdatedRow(op, token)>>,
                       !.waiting = IF refill
                                     THEN Candidates(view, slots, now, token)
                                     ELSE <<>>]]
               /\ UNCHANGED last
  /\ UNCHANGED <<tokens, audit, slots, now>>

\* allocateToken, first statement: tx.token.findUnique of the next candidate
\* and the test of its status; a throw rolls the transaction back
RelRead ==
  /\ txs.rel.pc = "read"
  /\ LET rel == txs.rel
         view == ApplyUpdates(tokens, rel.mine)
     IN IF rel.i > Len(rel.waiting)
          THEN txs' = [txs EXCEPT !.rel.pc = "audit"] /\ UNCHANGED last
        ELSE IF view[rel.waiting[rel.i]].status # WAITING
          THEN /\ txs' = [txs EXCEPT !.rel.pc = "done", !.rel.mine = <<>>]
               /\ last' = Failure(rel.op, "INVALID_STATUS", rel.tokenId)
        ELSE /\ txs' = [txs EXCEPT !.rel.pc = "write",
                                   !.rel.cand = view[rel.waiting[rel.i]]]
             /\ UNCHANGED last
  /\ UNCHANGED <<tokens, audit, slots, now>>

\* allocateToken, the rest: the slot query, the loop over the slots and
\* tx.token.update where id of the candidate, decided on the row read before
RelWrite ==
  /\ txs.rel.pc = "write"
  /\ LET rel == txs.rel
         w == rel.cand.id
         view == [ApplyUpdates(tokens, rel.mine) EXCEPT ![w] = rel.cand]
     IN \E r \in {allocateToken(view, <<>>, slots, now, w)} :
          txs' = [txs EXCEPT
                    !.rel.pc = "read",
                    !.rel.i = rel.i + 1,
                    !.rel.mine = IF r.success THEN Append(rel.mine, r.tokens[w])
                                 ELSE rel.mine,
                    !.rel.moved = IF r.success THEN Append(rel.moved, w)
                                  ELSE rel.moved]
  /\ UNCHANGED <<tokens, audit, slots, now, last>>

\* tx.auditLog.create, the return and the commit of the transaction
RelCommit ==
  /\ txs.rel.pc = "audit"
  /\ LET rel == txs.rel
         event == AuditEvent(AuditKind(rel.op), rel.tokenId, rel.token.slotId,
                    rel.token.doctorId, [movedTokensCount |-> Len(rel.moved)])
     IN /\ tokens' = ApplyUpdates(tokens, rel.mine)
        /\ audit' = AuditCommit(audit, <<event>>)
        /\ last' = [Result(rel.op, OK, rel.tokenId, rel.token.slotId, TRUE,
                           rel.moved, 0, "")
                      EXCEPT !.events = <<event>>]
        /\ txs' = [txs EXCEPT !.rel.pc = "done"]
  /\ UNCHANGED <<slots, now>>

\* prisma.token.updateMany of expireWaitingTokens: it waits while the
\* transaction holds a row it is to write
RaceUpdateMany(doctorId, date) ==
  /\ txs.exp.pc = "idle"
  /\ \A i \in ExpireSet(tokens, doctorId, date) : ~RelHolds(i)
  /\ tokens' = ExpireRows(tokens, doctorId, date)
  /\ txs' = [txs EXCEPT !.exp =
       [pc |-> "audit", doctorId |-> doctorId, date |-> date,
        count |-> Cardinality(ExpireSet(tokens, doctorId, date))]]
  /\ UNCHANGED <<audit, slots, now, last>>

\* prisma.auditLog.create of expireWaitingTokens, then return result.count
RaceAuditCreate ==
  /\ txs.exp.pc = "audit"
  /\ LET call == txs.exp
         event == AuditEvent("EXPIRE_TOKENS", NULL, NULL, call.doctorId,
                    [date |-> call.date, expiredCount |-> call.count])
     IN /\ audit' = AuditCommit(audit, <<event>>)
        /\ last' = [Result("expireWaitingTokens", OK, NULL, NULL, TRUE, <<>>,
                           call.count, "")
                      EXCEPT !.events = <<event>>]
  /\ txs' = [txs EXCEPT !.exp.pc = "done"]
  /\ UNCHANGED <<tokens, slots, now>>

InitRace ==
  \E t \in 0 .. MaxStart, queue \in [QueueIds -> QueuePayloads] :
    LET created == CreateAll(<<>>, EmptyBag, t, queue)
    IN /\ tokens = created.tokens
       /\ audit = created.audit
       /\ slots = SlotTable
       /\ now = t
       /\ last = Result("init", OK, NULL, NULL, TRUE, <<>>, 0, "")
       /\ txs = [rel |-> IdleRel, exp |-> IdleExp]

NextRace ==
  \/ \E op \in {"cancelToken", "markNoShow"}, tokenId \in QueueIds :
       RelBegin(op, tokenId)
  \/ RelRead
  \/ RelWrite
  \/ RelCommit
  \/ \E doctorId \in Doctors, date \in Dates : RaceUpdateMany(doctorId, date)
  \/ RaceAuditCreate

SpecRace == InitRace /\ [][NextRace]_vars

----------------------------------------------------------------------------
(* updateSlotCapacity and deleteSlot beside createToken.  Both handlers call
   prisma.slot.findUnique and prisma.slot.update on the client itself,
   outside any transaction and without a lock: the row and the tokens read
   by the first statement may have changed when the second one writes.
   createToken runs as one transaction between the two statements.  txs
   holds the handler between its statements, with the slot it has read. *)

\* a handler that has not started
IdleHandler ==
  [pc |-> "idle", op |-> "", slotId |-> NULL,
   body |-> SlotBody(UNDEFINED, UNDEFINED, UNDEFINED), slot |-> SlotTable[1]]

\* capacities the PATCH requests of this specification carry
RaceBodies == {SlotBody(capacity, UNDEFINED, UNDEFINED) : capacity \in 1 .. 2}

\* slot ids the requests name: the slots of doctor d1 and an id no slot has
RaceSlotIds == {1, 2, MaxSlots + 1}

\* a handler answers: code is the HTTP status when it is not 200
Answer(op, code, slotId, note) ==
  [Result(op, code, NULL, slotId, code = OK, <<>>, 0, note) EXCEPT !.slotId = slotId]

\* updateSlotCapacity: prisma.slot.findUnique with the ALLOCATED tokens, and
\* the test of the new capacity against their number
UpdateFind(slotId, body) ==
  /\ txs.pc = "idle"
  /\ IF slotId \notin DOMAIN slots
       THEN /\ last' = Answer("updateSlotCapacity", "HTTP_404", slotId,
                              "Slot not found")
            /\ UNCHANGED txs
     ELSE LET currentAllocated == Len(AllocatedTokens(tokens, slotId))
          IN IF ~Falsy(body.capacity) /\ body.capacity < currentAllocated
               THEN /\ last' = Answer("updateSlotCapacity", "HTTP_400", slotId,
                                      "Cannot reduce capacity below current allocated count")
                    /\ UNCHANGED txs
             ELSE /\ txs' = [pc |-> "update", op |-> "updateSlotCapacity",
                             slotId |-> slotId, body |-> body,
                             slot |-> slots[slotId]]
                  /\ UNCHANGED last
  /\ UNCHANGED <<tokens, audit, slots, now>>

\* updateSlotCapacity: prisma.slot.update where id, its data computed from
\* the body and the slot read before, and the answer
UpdateWrite ==
  /\ txs.pc = "update"
  /\ txs.op = "updateSlotCapacity"
  /\ LET data == SlotUpdate(txs.slot, txs.body)
     IN slots' = [slots EXCEPT ![txs.slotId].capacity = data.capacity,
                               ![txs.slotId].paidCap = data.paidCap,
                               ![txs.slotId].followUpCap = data.followUpCap]
  /\ last' = Answer("updateSlotCapacity", OK, txs.slotId,
                    "Slot updated successfully")
  /\ txs' = IdleHandler
  /\ UNCHANGED <<tokens, audit, now>>

\* deleteSlot: prisma.slot.findUnique with the ALLOCATED tokens, and the test
\* that there are none
DeleteFind(slotId) ==
  /\ txs.pc = "idle"
  /\ IF slotId \notin DOMAIN slots
       THEN /\ last' = Answer("deleteSlot", "HTTP_404", slotId, "Slot not found")
            /\ UNCHANGED txs
     ELSE IF Len(AllocatedTokens(tokens, slotId)) > 0
       THEN /\ last' = Answer("deleteSlot", "HTTP_400", slotId,
                              "Cannot delete slot with allocated tokens")
            /\ UNCHANGED txs
     ELSE /\ txs' = [IdleHandler EXCEPT !.pc = "update", !.op = "deleteSlot",
                                        !.slotId = slotId,
                                        !.slot = slots[slotId]]
          /\ UNCHANGED last
  /\ UNCHANGED <<tokens, audit, slots, now>>

\* deleteSlot: prisma.slot.update where id with isActive false, and the answer
DeleteWrite ==
  /\ txs.pc = "update"
  /\ txs.op = "deleteSlot"
  /\ slots' = [slots EXCEPT ![txs.slotId].isActive = FALSE]
  /\ last' = Answer("deleteSlot", OK, txs.slotId,
                    "Slot deactivated successfully")
  /\ txs' = IdleHandler
  /\ UNCHANGED <<tokens, audit, now>>

\* createToken as one transaction; txs is the handler's and stays
createTokenBeside(input) ==
  /\ \/ KeyInUse(tokens, input.idempotencyKey)
     \/ input.idempotencyKey = Len(tokens) + 1 /\ Len(tokens) < MaxTokens
  /\ LET r == createTokenTx(tokens, <<>>, slots, now, input)
     IN Commit([r EXCEPT !.result.key = input.idempotencyKey])
  /\ UNCHANGED <<slots, now, txs>>

InitSlotRace ==
  /\ tokens = <<>>
  /\ audit = EmptyBag
  /\ slots = SlotTable
  /\ now \in 0 .. MaxStart
  /\ last = Result("init", OK, NULL, NULL, TRUE, <<>>, 0, "")
  /\ txs = IdleHandler

NextSlotRace ==
  \/ \E input \in SlotInputs : createTokenBeside(input)
  \/ \E slotId \in RaceSlotIds, body \in RaceBodies : UpdateFind(slotId, body)
  \/ UpdateWrite
  \/ \E slotId \in RaceSlotIds : DeleteFind(slotId)
  \/ DeleteWrite

SpecSlotRace == InitSlotRace /\ [][NextSlotRace]_vars

----------------------------------------------------------------------------
(* Vocabulary of the properties *)

\* ids of the tokens ALLOCATED to a slot
Occupants(toks, slotId) ==
  {i \in TokenIds(toks) : toks[i].status = ALLOCATED /\ toks[i].slotId = slotId}

OccupantsOf(toks, slotId, priority) ==
  {i \in Occupants(toks, slotId) : toks[i].priority = priority}

\* the active slots of a doctor and date that have not ended
OpenSlots(doctorId, date) ==
  {s \in DOMAIN slots : /\ slots[s].doctorId = doctorId
                        /\ slots[s].date = date
                        /\ slots[s].isActive
                        /\ now < SlotInstant(slots[s].endTime, slots[s].date)}

\* the earliest-starting open slot of a non-empty set of slots
Earliest(S) == CHOOSE s \in S : \A r \in S :
                 \/ slots[s].startTime < slots[r].startTime
                 \/ slots[s].startTime = slots[r].startTime /\ s <= r

\* the admissible predicate as the specification states it
Admissible(priority, allocatedCount, paidCount, followUpCount, capacity, paidCap, followUpCap) ==
  IF priority = EMERGENCY THEN TRUE
  ELSE IF allocatedCount >= capacity THEN FALSE
  ELSE IF priority = PAID /\ paidCap # NULL /\ paidCount >= paidCap THEN FALSE
  ELSE IF priority = FOLLOWUP /\ followUpCap # NULL
          /\ followUpCount >= followUpCap THEN FALSE
  ELSE TRUE

\* a slot is admissible, in the specification's sense, to a priority
AdmissibleTo(priority, s) ==
  Admissible(priority, Cardinality(Occupants(tokens, s)),
             Cardinality(OccupantsOf(tokens, s, PAID)),
             Cardinality(OccupantsOf(tokens, s, FOLLOWUP)),
             slots[s].capacity, slots[s].paidCap, slots[s].followUpCap)

\* a request that creates a row: its key is new and its doctor is active
Creates(input) ==
  /\ ~KeyInUse(tokens, input.idempotencyKey)
  /\ input.doctorId \in ActiveDoctors

\* the last operation was a createToken that created row last.tokenId
Created ==
  /\ last.op = "createToken"
  /\ last.code = OK
  /\ last.events # <<>>

\* occupants of a slot with the numerically highest priority value
Lowest(s) ==
  {i \in Occupants(tokens, s) : \A j \in Occupants(tokens, s) :
     getPriorityOrder(tokens[i].priority) >= getPriorityOrder(tokens[j].priority)}

----------------------------------------------------------------------------
(* C1 *)

\* C1: after any sequence of operations run one at a time, every slot holds
\* at most capacity ALLOCATED tokens.
C1_Capacity ==
  \A s \in DOMAIN slots : Cardinality(Occupants(tokens, s)) <= slots[s].capacity

\* a createToken met a full open slot of its doctor and date and placed its
\* token elsewhere or left it waiting
C1_Witness ==
  /\ Created
  /\ \E s \in OpenSlots(tokens[last.tokenId].doctorId, tokens[last.tokenId].date) :
       /\ Cardinality(Occupants(tokens, s)) = slots[s].capacity
       /\ last.tokenId \notin Occupants(tokens, s)

----------------------------------------------------------------------------
(* C3 *)

\* C3: a createToken with priority EMERGENCY that finds the earliest open
\* slot S of its doctor and date full ends with the new token ALLOCATED to S,
\* a lowest-priority occupant of S evicted from S, and the number of
\* occupants of S unchanged.
C3_EmergencyDisplaces ==
  [][\A input \in Inputs :
       ( /\ createToken(input)
         /\ Creates(input)
         /\ input.priority = EMERGENCY
         /\ OpenSlots(input.doctorId, input.date) # {}
         /\ LET S == Earliest(OpenSlots(input.doctorId, input.date))
            IN /\ slots[S].capacity >= 1
               /\ Cardinality(Occupants(tokens, S)) = slots[S].capacity )
       => LET S == Earliest(OpenSlots(input.doctorId, input.date))
              new == Len(tokens')
          IN /\ tokens'[new].status = ALLOCATED
             /\ tokens'[new].slotId = S
             /\ \E v \in Lowest(S) : v \notin Occupants(tokens', S)
             /\ Cardinality(Occupants(tokens', S))
                  = Cardinality(Occupants(tokens, S))]_vars

----------------------------------------------------------------------------
(* C4 *)

\* C4: canAllocateToSlot is the admissible predicate: true for EMERGENCY
\* whatever the counts, false for any other priority in a full slot, false
\* for PAID at the paid cap and FOLLOWUP at the follow-up cap, true otherwise.
C4_AdmissibleAsSpecified ==
  \A s \in DOMAIN slots : \A priority \in Priority :
    canAllocateToSlot(priority,
                      Cardinality(OccupantsOf(tokens, s, PAID)),
                      Cardinality(OccupantsOf(tokens, s, FOLLOWUP)),
                      Cardinality(Occupants(tokens, s)),
                      slots[s].capacity, slots[s].paidCap, slots[s].followUpCap)
      = AdmissibleTo(priority, s)

----------------------------------------------------------------------------
(* C5 *)

\* C5: when an EMERGENCY arrives at a full earliest open slot S and another
\* open slot of the doctor and date is admissible to the victim, the victim
\* ends the operation ALLOCATED in an open slot other than S.
C5_VictimReplaced ==
  [][\A input \in Inputs :
       ( /\ createToken(input)
         /\ Creates(input)
         /\ input.priority = EMERGENCY
         /\ OpenSlots(input.doctorId, input.date) # {}
         /\ LET open == OpenSlots(input.doctorId, input.date)
                S == Earliest(open)
                victim == findLowestPriorityToken(AllocatedTokens(tokens, S))
            IN /\ slots[S].capacity >= 1
               /\ Cardinality(Occupants(tokens, S)) = slots[S].capacity
               /\ \E r \in open \ {S} : AdmissibleTo(tokens[victim].priority, r) )
       => LET open == OpenSlots(input.doctorId, input.date)
              S == Earliest(open)
              victim == findLowestPriorityToken(AllocatedTokens(tokens, S))
          IN /\ tokens'[victim].status = ALLOCATED
             /\ tokens'[victim].slotId \in open \ {S}]_vars

----------------------------------------------------------------------------
(* C6 *)

\* every slot respects its paid cap and its follow-up cap
CapsHold(toks) ==
  \A s \in DOMAIN slots :
    /\ slots[s].paidCap # NULL
         => Cardinality(OccupantsOf(toks, s, PAID)) <= slots[s].paidCap
    /\ slots[s].followUpCap # NULL
         => Cardinality(OccupantsOf(toks, s, FOLLOWUP)) <= slots[s].followUpCap

\* C6: after every operation each slot holds at most paidCap ALLOCATED PAID
\* tokens and at most followUpCap ALLOCATED FOLLOWUP tokens, and a PAID token
\* created while every open slot of its doctor and date is at its paid cap is
\* left WAITING without a slot.
C6_CapsRespected ==
  [][/\ CapsHold(tokens')
     /\ \A input \in {x \in Inputs : x.priority = PAID} :
          ( /\ last'.op = "createToken"
            /\ last'.key = input.idempotencyKey
            /\ Creates(input)
            /\ \A s \in OpenSlots(input.doctorId, input.date) :
                 /\ slots[s].paidCap # NULL
                 /\ Cardinality(OccupantsOf(tokens, s, PAID)) >= slots[s].paidCap
            /\ createToken(input) )
          => /\ tokens'[Len(tokens')].status = WAITING
             /\ tokens'[Len(tokens')].slotId = NULL]_vars

\* a PAID token was created and left waiting although an open slot of its
\* doctor and date, already at its paid cap, has a free seat
C6_Witness ==
  /\ Created
  /\ tokens[last.tokenId].priority = PAID
  /\ tokens[last.tokenId].status = WAITING
  /\ LET open == OpenSlots(tokens[last.tokenId].doctorId,
                           tokens[last.tokenId].date)
     IN /\ \A s \in open :
             /\ slots[s].paidCap # NULL
             /\ Cardinality(OccupantsOf(tokens, s, PAID)) = slots[s].paidCap
        /\ \E s \in open :
             Cardinality(Occupants(tokens, s)) < slots[s].capacity

----------------------------------------------------------------------------
(* C7 *)

\* the transitions the specification allows
AllowedTransition(from, to) ==
  \/ from = WAITING /\ to \in {ALLOCATED, CANCELLED, EXPIRED}
  \/ from = ALLOCATED /\ to \in {COMPLETED, NO_SHOW, CANCELLED, WAITING}

\* C7: every status change an operation applies to a token is an allowed
\* transition, so a COMPLETED, CANCELLED, NO_SHOW or EXPIRED token never
\* changes status again.
C7_AllowedTransitions ==
  [][\A i \in TokenIds(tokens) :
       tokens'[i].status # tokens[i].status
         => AllowedTransition(tokens[i].status, tokens'[i].status)]_vars

----------------------------------------------------------------------------
(* C8 *)

----------------------------------------------------------------------------
(* C9 *)

----------------------------------------------------------------------------
(* C2 *)

\* C2: in every interleaving of concurrent createToken transactions no slot
\* ever holds more committed ALLOCATED tokens than its capacity: at most one
\* of the transactions fills a last free seat.
C2_LastSeatFilledOnce ==
  ~ \E s \in DOMAIN slots :
      Cardinality(Occupants(tokens, s)) > slots[s].capacity

----------------------------------------------------------------------------
(* C10 *)

\* C10: two concurrent createToken transactions with the same idempotencyKey
\* and active doctors both return success with the same token, and exactly
\* one row holds the key.
C10_BothSucceed ==
  \A p, q \in Procs :
    ( /\ p # q
      /\ txs[p].pc = "done"
      /\ txs[q].pc = "done"
      /\ txs[p].input.idempotencyKey = txs[q].input.idempotencyKey
      /\ txs[p].input.doctorId \in ActiveDoctors
      /\ txs[q].input.doctorId \in ActiveDoctors )
    => /\ txs[p].result.code = OK
       /\ txs[q].result.code = OK
       /\ txs[p].result.tokenId = txs[q].result.tokenId
       /\ Cardinality({i \in TokenIds(tokens) :
            tokens[i].idempotencyKey = txs[p].input.idempotencyKey}) = 1

----------------------------------------------------------------------------
(* Vocabulary of the reallocation properties *)

\* the step is a cancelToken or a markNoShow of token id
ReleaseStep(id) ==
  /\ last'.op \in {"cancelToken", "markNoShow"}
  /\ last'.tokenId = id
  /\ (cancelToken(id) \/ markNoShow(id))

\* token id is ALLOCATED to a slot that has not ended
SeatedInOpenSlot(id) ==
  /\ tokens[id].status = ALLOCATED
  /\ now < SlotInstant(slots[tokens[id].slotId].endTime,
                       slots[tokens[id].slotId].date)

\* token id is ALLOCATED to a slot that has ended
SeatedInEndedSlot(id) ==
  /\ tokens[id].status = ALLOCATED
  /\ now >= SlotInstant(slots[tokens[id].slotId].endTime,
                        slots[tokens[id].slotId].date)

\* a slot is imminent: not ended, and it starts at most one hour from now or
\* is in progress
Imminent(s) ==
  /\ now < SlotInstant(slots[s].endTime, slots[s].date)
  /\ SlotInstant(slots[s].startTime, slots[s].date) - now <= 1

\* the WAITING tokens of the doctor and date of token id
WaitingWith(id) ==
  {w \in TokenIds(tokens) : /\ tokens[w].status = WAITING
                            /\ tokens[w].doctorId = tokens[id].doctorId
                            /\ tokens[w].date = tokens[id].date}

\* slot s is admissible to token w against the counts without token id
AdmissibleAfter(w, s, id) ==
  Admissible(tokens[w].priority,
             Cardinality(Occupants(tokens, s) \ {id}),
             Cardinality(OccupantsOf(tokens, s, PAID) \ {id}),
             Cardinality(OccupantsOf(tokens, s, FOLLOWUP) \ {id}),
             slots[s].capacity, slots[s].paidCap, slots[s].followUpCap)

\* the waiting tokens of the doctor and date of token id that some open slot
\* would admit once token id has left
AdmissibleWaiting(id) ==
  {w \in WaitingWith(id) :
     \E s \in OpenSlots(tokens[id].doctorId, tokens[id].date) :
       AdmissibleAfter(w, s, id)}

\* the tokens the step promotes from WAITING to ALLOCATED
Promoted ==
  {w \in TokenIds(tokens) :
     tokens[w].status = WAITING /\ tokens'[w].status = ALLOCATED}

\* the step changes no token other than token id
OthersUnchanged(id) ==
  /\ Len(tokens') = Len(tokens)
  /\ \A j \in TokenIds(tokens) \ {id} : tokens'[j] = tokens[j]

----------------------------------------------------------------------------
(* C11 *)

\* C11: a cancelToken or markNoShow of a token ALLOCATED to a slot that has
\* not ended promotes at least one WAITING token whenever some WAITING token
\* of the doctor and date is admissible, against the counts after the
\* release, to some open slot.
C11_PriorityProgress ==
  [][\A id \in TokenIds(tokens) :
       ( /\ ReleaseStep(id)
         /\ SeatedInOpenSlot(id)
         /\ AdmissibleWaiting(id) # {} )
       => Promoted # {}]_vars

----------------------------------------------------------------------------
(* C12 *)

\* C12: when the slot freed by cancelToken or markNoShow is imminent and some
\* WAITING token of the doctor and date has source WALKIN, every token the
\* operation promotes has source WALKIN.
C12_WalkInPreference ==
  [][\A id \in TokenIds(tokens) :
       ( /\ ReleaseStep(id)
         /\ SeatedInOpenSlot(id)
         /\ Imminent(tokens[id].slotId)
         /\ \E w \in WaitingWith(id) : tokens[w].source = WALKIN )
       => \A w \in Promoted : tokens[w].source = WALKIN]_vars

\* the last operation freed a seat of an imminent slot and promoted a walk-in
\* while an ONLINE-source token of higher priority, created earlier, is still
\* waiting
C12_Witness ==
  /\ last.op \in {"cancelToken", "markNoShow"}
  /\ last.code = OK
  /\ last.slotId # NULL
  /\ Imminent(last.slotId)
  /\ \E k \in DOMAIN last.moved : \E o \in TokenIds(tokens) :
       LET w == last.moved[k]
       IN /\ tokens[w].source = WALKIN
          /\ tokens[w].status = ALLOCATED
          /\ tokens[o].source = ONLINE
          /\ tokens[o].status = WAITING
          /\ tokens[o].doctorId = tokens[w].doctorId
          /\ getPriorityOrder(tokens[o].priority)
               < getPriorityOrder(tokens[w].priority)
          /\ tokens[o].createdAt < tokens[w].createdAt

----------------------------------------------------------------------------
(* C13 *)

\* token v comes before token w in (priority, createdAt) order
Before(v, w) ==
  \/ getPriorityOrder(tokens[v].priority) < getPriorityOrder(tokens[w].priority)
  \/ /\ tokens[v].priority = tokens[w].priority
     /\ tokens[v].createdAt <= tokens[w].createdAt

\* C13: when the slot freed by cancelToken or markNoShow is imminent, no
\* WAITING token of the doctor and date has source WALKIN and some WAITING
\* token is admissible to an open slot, the first admissible WAITING token in
\* (priority, createdAt) order is promoted.
C13_Fallback ==
  [][\A id \in TokenIds(tokens) :
       ( /\ ReleaseStep(id)
         /\ SeatedInOpenSlot(id)
         /\ Imminent(tokens[id].slotId)
         /\ \A w \in WaitingWith(id) : tokens[w].source # WALKIN
         /\ AdmissibleWaiting(id) # {} )
       => \E w \in AdmissibleWaiting(id) :
            /\ \A v \in AdmissibleWaiting(id) : Before(w, v)
            /\ w \in Promoted]_vars

\* the last operation freed a seat of an imminent slot and promoted an
\* ONLINE-source token, no walk-in being left waiting
C13_Witness ==
  /\ last.op \in {"cancelToken", "markNoShow"}
  /\ last.code = OK
  /\ last.slotId # NULL
  /\ Imminent(last.slotId)
  /\ \E k \in DOMAIN last.moved :
       /\ tokens[last.moved[k]].source = ONLINE
       /\ tokens[last.moved[k]].status = ALLOCATED
  /\ \A w \in TokenIds(tokens) :
       tokens[w].status = WAITING => tokens[w].source # WALKIN

----------------------------------------------------------------------------
(* C14 *)

\* C14: a cancelToken or markNoShow of a token ALLOCATED to a slot that has
\* ended sets the token to CANCELLED or NO_SHOW without a slot, changes no
\* other token, returns no promoted token and writes one audit event, whose
\* details give the reason "Slot already ended".
C14_EndedSlotRelease ==
  [][\A id \in TokenIds(tokens) :
       (ReleaseStep(id) /\ SeatedInEndedSlot(id))
       => /\ last'.code = OK
          /\ tokens'[id].status
               = IF last'.op = "cancelToken" THEN CANCELLED ELSE NO_SHOW
          /\ tokens'[id].slotId = NULL
          /\ OthersUnchanged(id)
          /\ last'.moved = <<>>
          /\ Len(last'.events) = 1
          /\ last'.events[1].tokenId = id
          /\ "reason" \in DOMAIN last'.events[1].details
          /\ last'.events[1].details.reason = "Slot already ended"
          /\ BagCardinality(audit') = BagCardinality(audit) + 1]_vars

\* the last operation released a token whose slot had ended while another
\* token of the doctor was waiting
C14_Witness ==
  /\ last.op \in {"cancelToken", "markNoShow"}
  /\ last.code = OK
  /\ last.slotId # NULL
  /\ now >= SlotInstant(slots[last.slotId].endTime, slots[last.slotId].date)
  /\ tokens[last.tokenId].status \in {CANCELLED, NO_SHOW}
  /\ \E w \in TokenIds(tokens) :
       /\ tokens[w].status = WAITING
       /\ tokens[w].doctorId = tokens[last.tokenId].doctorId

----------------------------------------------------------------------------
(* C15 *)

\* C15: a cancelToken of a WAITING token sets it to CANCELLED, changes no
\* other token and returns no promoted token.
C15_CancelWaiting ==
  [][\A id \in TokenIds(tokens) :
       ( /\ last'.op = "cancelToken"
         /\ last'.tokenId = id
         /\ tokens[id].status = WAITING
         /\ cancelToken(id) )
       => /\ last'.code = OK
          /\ tokens'[id].status = CANCELLED
          /\ tokens'[id].slotId = NULL
          /\ OthersUnchanged(id)
          /\ last'.moved = <<>>]_vars

\* the last operation cancelled a token that never had a slot while another
\* token of the doctor is waiting and an open slot with a free seat admits it
C15_Witness ==
  /\ last.op = "cancelToken"
  /\ last.code = OK
  /\ last.slotId = NULL
  /\ tokens[last.tokenId].status = CANCELLED
  /\ tokens[last.tokenId].allocatedAt = NULL
  /\ \E w \in TokenIds(tokens) :
       /\ tokens[w].status = WAITING
       /\ tokens[w].doctorId = tokens[last.tokenId].doctorId
       /\ \E s \in OpenSlots(tokens[w].doctorId, tokens[w].date) :
            /\ Cardinality(Occupants(tokens, s)) < slots[s].capacity
            /\ AdmissibleTo(tokens[w].priority, s)

----------------------------------------------------------------------------
(* C16 *)

\* C16: expireWaitingTokens(doctorId, date) sets every WAITING token of the
\* doctor and date to EXPIRED, changes nothing else of any token, allocates
\* no token and returns the number of tokens it changed.
C16_ExpireWaiting ==
  [][\A doctorId \in Doctors, date \in ExpireDates :
       ( /\ last'.op = "expireWaitingTokens"
         /\ expireWaitingTokens(doctorId, date) )
       => /\ Len(tokens') = Len(tokens)
          /\ \A i \in TokenIds(tokens) :
               tokens'[i] =
                 IF /\ tokens[i].status = WAITING
                    /\ tokens[i].doctorId = doctorId
                    /\ tokens[i].date = date
                   THEN [tokens[i] EXCEPT !.status = EXPIRED]
                   ELSE tokens[i]
          /\ last'.code = OK
          /\ last'.count = Cardinality({i \in TokenIds(tokens) :
                                          tokens'[i] # tokens[i]})]_vars

\* the last operation expired a token of one doctor while a token of another
\* doctor is still waiting
C16_Witness ==
  /\ last.op = "expireWaitingTokens"
  /\ last.count >= 1
  /\ \E i, j \in TokenIds(tokens) :
       /\ tokens[i].status = EXPIRED
       /\ tokens[i].doctorId = last.events[1].doctorId
       /\ tokens[j].status = WAITING
       /\ tokens[j].doctorId # last.events[1].doctorId

----------------------------------------------------------------------------
(* C17 *)

\* C17: expireWaitingTokens is atomic: in no state that another operation can
\* observe, and in no state a fault leaves behind, is a token EXPIRED while
\* the EXPIRE_TOKENS audit event of its expiry is missing.
C17_ExpireAtomic ==
  (\E i \in TokenIds(tokens) : tokens[i].status = EXPIRED)
    => AuditCount(audit, "EXPIRE_TOKENS") >= 1

----------------------------------------------------------------------------
(* C18 *)

\* every ALLOCATED token is in a slot that has not ended
NoneSeatedInEndedSlot ==
  \A i \in TokenIds(tokens) :
    tokens[i].status = ALLOCATED
      => now < SlotInstant(slots[tokens[i].slotId].endTime,
                           slots[tokens[i].slotId].date)

\* C18: after every operation, at whatever clock time it commits, no
\* ALLOCATED token references a slot whose end time has passed.
C18_NoneAllocatedToEndedSlot ==
  last.op \notin {"init", "tick"} => NoneSeatedInEndedSlot

\* C18, amended: no operation allocates a token to a slot that has ended:
\* whenever an operation makes a token ALLOCATED or gives it another slot, the
\* end of that slot is after the clock time of the operation.
C18_AllocatesToOpenSlot ==
  [][\A i \in TokenIds(tokens') :
       ( /\ tokens'[i].status = ALLOCATED
         /\ \/ i \notin TokenIds(tokens)
            \/ tokens[i].status # ALLOCATED
            \/ tokens[i].slotId # tokens'[i].slotId )
       => now' < SlotInstant(slots'[tokens'[i].slotId].endTime,
                             slots'[tokens'[i].slotId].date)]_vars

\* the last operation created a token and seated it in an open slot while a
\* slot of its doctor and date that has ended holds a free seat
C18_Witness ==
  /\ Created
  /\ tokens[last.tokenId].status = ALLOCATED
  /\ \E s \in DOMAIN slots :
       /\ slots[s].doctorId = tokens[last.tokenId].doctorId
       /\ slots[s].date = tokens[last.tokenId].date
       /\ slots[s].isActive
       /\ now >= SlotInstant(slots[s].endTime, slots[s].date)
       /\ Cardinality(Occupants(tokens, s)) < slots[s].capacity

----------------------------------------------------------------------------
(* C19 *)

\* the step changes no token, slot or audit record
NothingChanged ==
  /\ tokens' = tokens
  /\ audit' = audit
  /\ slots' = slots

\* C19: completeToken or markNoShow on a token that is not ALLOCATED fails
\* with INVALID_STATUS, cancelToken on a CANCELLED token with
\* ALREADY_CANCELLED and on a COMPLETED token with CANNOT_CANCEL_COMPLETED,
\* any of the three on an unknown id with TOKEN_NOT_FOUND, and a call that
\* fails changes no token, slot or audit record.
C19_PreconditionFailures ==
  [][\A id \in RequestIds :
       /\ ( /\ last'.op \in {"completeToken", "markNoShow"}
            /\ last'.tokenId = id
            /\ id \in TokenIds(tokens)
            /\ tokens[id].status # ALLOCATED
            /\ (completeToken(id) \/ markNoShow(id)) )
          => (last'.code = "INVALID_STATUS" /\ NothingChanged)
       /\ ( /\ last'.op = "cancelToken"
            /\ last'.tokenId = id
            /\ id \in TokenIds(tokens)
            /\ tokens[id].status \in {CANCELLED, COMPLETED}
            /\ cancelToken(id) )
          => /\ last'.code = IF tokens[id].status = CANCELLED
                               THEN "ALREADY_CANCELLED"
                               ELSE "CANNOT_CANCEL_COMPLETED"
             /\ NothingChanged
       /\ ( /\ last'.op \in {"completeToken", "markNoShow", "cancelToken"}
            /\ last'.tokenId = id
            /\ id \notin TokenIds(tokens)
            /\ (completeToken(id) \/ markNoShow(id) \/ cancelToken(id)) )
          => (last'.code = "TOKEN_NOT_FOUND" /\ NothingChanged)
       /\ ( /\ last'.tokenId = id
            /\ last'.code # OK
            /\ (completeToken(id) \/ markNoShow(id) \/ cancelToken(id)) )
          => NothingChanged]_vars

\* the last operation was a cancelToken refused for a COMPLETED token
C19_Witness ==
  /\ last.op = "cancelToken"
  /\ last.code = "CANNOT_CANCEL_COMPLETED"
  /\ tokens[last.tokenId].status = COMPLETED

----------------------------------------------------------------------------
(* C20 *)

\* C20: a createToken with a new idempotencyKey for a doctor that is missing
\* or inactive fails with DOCTOR_NOT_FOUND and leaves the token table and the
\* audit log as they were.
C20_DoctorNotFound ==
  [][\A input \in Inputs :
       ( /\ last'.op = "createToken"
         /\ last'.key = input.idempotencyKey
         /\ ~KeyInUse(tokens, input.idempotencyKey)
         /\ input.doctorId \notin ActiveDoctors
         /\ createToken(input) )
       => /\ last'.code = "DOCTOR_NOT_FOUND"
          /\ last'.events = <<>>
          /\ NothingChanged]_vars

\* the last operation was a createToken refused for its doctor while a token
\* is already stored
C20_Witness ==
  /\ last.op = "createToken"
  /\ last.code = "DOCTOR_NOT_FOUND"
  /\ last.key = Len(tokens) + 1
  /\ Len(tokens) >= 1

----------------------------------------------------------------------------
(* C21 *)

\* the orders in which a set of transactions can run one at a time
Orders(S) ==
  {f \in [1 .. Cardinality(S) -> S] : \A i, j \in DOMAIN f : f[i] = f[j] => i = j}

\* the token table after the createToken calls of the transactions of order
\* have run one at a time, from position i on, on table toks
RECURSIVE RunInOrder(_, _, _)
RunInOrder(toks, order, i) ==
  IF i > Len(order) THEN toks
  ELSE RunInOrder(createTokenTx(toks, <<>>, slots, now, txs[order[i]].input).tokens,
                  order, i + 1)

\* what a token table holds, whatever the order of its rows and the instants
\* at which they were written
Outcome(toks) ==
  {[idempotencyKey |-> toks[i].idempotencyKey, doctorId |-> toks[i].doctorId,
    priority |-> toks[i].priority, status |-> toks[i].status,
    slotId |-> toks[i].slotId] : i \in TokenIds(toks)}

\* the transactions that have ended
Ended == {p \in Procs : txs[p].pc = "done"}

\* C21: once concurrent createToken transactions have ended, the committed
\* token table is one that running the same calls one at a time, in some
\* order, produces.
C21_Serializable ==
  (\A p \in Procs : txs[p].pc \in {"idle", "done"})
    => \E order \in Orders(Ended) :
         Outcome(tokens) = Outcome(RunInOrder(<<>>, order, 1))

----------------------------------------------------------------------------
(* C22 *)

\* C22: when two different operations among cancelToken, markNoShow and
\* completeToken have both read the same token as ALLOCATED, exactly one of
\* them succeeds, and the token
\* has one audit event of a terminal operation: one status change and at most
\* one reallocation for its seat.
C22_OneTerminalOperation ==
  \A p, q \in Procs :
    ( /\ p # q
      /\ txs[p].pc = "done"
      /\ txs[q].pc = "done"
      /\ txs[p].tokenId = txs[q].tokenId
      /\ txs[p].op # txs[q].op
      /\ txs[p].token.status = ALLOCATED
      /\ txs[q].token.status = ALLOCATED )
    => /\ (txs[p].result.code = OK) # (txs[q].result.code = OK)
       /\ AuditCountOf(audit, "CANCEL_TOKEN", txs[p].tokenId)
            + AuditCountOf(audit, "NO_SHOW", txs[p].tokenId)
            + AuditCountOf(audit, "COMPLETE_TOKEN", txs[p].tokenId) = 1

----------------------------------------------------------------------------
(* C23 *)

\* rows of an operation the step adds to the audit table
Added(operation) == AuditCount(audit', operation) - AuditCount(audit, operation)

\* the tokens the step takes out of the slot they were ALLOCATED to
Displaced ==
  {i \in TokenIds(tokens) :
     /\ tokens[i].status = ALLOCATED
     /\ i \in TokenIds(tokens')
     /\ (tokens'[i].status = WAITING \/ tokens'[i].slotId # tokens[i].slotId)
     /\ tokens'[i].status \in {WAITING, ALLOCATED}}

\* the step ends an expireWaitingTokens call that has changed tokens
ExpireEnds == txs # <<>> /\ txs' = <<>> /\ txs[1].count > 0

\* C23: a createToken that creates a row appends one CREATE_TOKEN event and
\* one EMERGENCY_DISPLACEMENT event for each token it displaces, an
\* expireWaitingTokens call that has changed tokens ends with one
\* EXPIRE_TOKENS event appended, and a step that ends an operation in failure
\* or replays a createToken appends nothing.
C23_OneEventPerOperation ==
  [][/\ Added("CREATE_TOKEN") = Len(tokens') - Len(tokens)
     /\ Added("EMERGENCY_DISPLACEMENT") = Cardinality(Displaced)
     /\ ExpireEnds => Added("EXPIRE_TOKENS") = 1
     /\ (last'.code # OK \/ last'.note \in {"replay", "replay-differs"})
          => BagCardinality(audit') = BagCardinality(audit)]_vars

----------------------------------------------------------------------------
(* C24 *)

\* C24: an updateSlotCapacity request whose capacity, 0 included, is smaller
\* than the number of ALLOCATED tokens of the slot fails and leaves the slot
\* table as it was.
C24_ReductionRejected ==
  [][\A slotId \in PatchIds \cap DOMAIN slots : \A body \in SlotBodies :
       ( /\ last'.op = "updateSlotCapacity"
         /\ last'.slotId = slotId
         /\ body.capacity \notin {UNDEFINED, NULL}
         /\ body.capacity < Cardinality(Occupants(tokens, slotId))
         /\ updateSlotCapacity(slotId, body) )
       => /\ last'.code # OK
          /\ slots' = slots]_vars

----------------------------------------------------------------------------
(* C25 *)

\* C25: after any sequence of validated slot creations and updateSlotCapacity
\* requests, every slot with a paidCap has paidCap <= capacity and every slot
\* with a followUpCap has followUpCap <= capacity.
C25_SubCapsWithinCapacity ==
  \A s \in DOMAIN slots :
    /\ slots[s].paidCap # NULL => slots[s].paidCap <= slots[s].capacity
    /\ slots[s].followUpCap # NULL => slots[s].followUpCap <= slots[s].capacity

----------------------------------------------------------------------------
(* C26 *)

\* C26: a completeToken of an ALLOCATED token sets its status to COMPLETED and
\* its completedAt, changes nothing else of it and no other token, and
\* promotes no WAITING token.
C26_CompleteOnly ==
  [][\A id \in TokenIds(tokens) :
       ( /\ last'.op = "completeToken"
         /\ last'.tokenId = id
         /\ tokens[id].status = ALLOCATED
         /\ completeToken(id) )
       => /\ last'.code = OK
          /\ tokens'[id] = [tokens[id] EXCEPT !.status = COMPLETED,
                                              !.completedAt = SET]
          /\ OthersUnchanged(id)
          /\ Promoted = {}
          /\ last'.moved = <<>>]_vars

\* the last operation completed a token whose slot has not ended while a
\* token of the doctor and date is waiting that the slot, with the seat now
\* free, admits
C26_Witness ==
  /\ last.op = "completeToken"
  /\ last.code = OK
  /\ tokens[last.tokenId].status = COMPLETED
  /\ last.slotId \in OpenSlots(tokens[last.tokenId].doctorId,
                              tokens[last.tokenId].date)
  /\ \E w \in TokenIds(tokens) :
       /\ tokens[w].status = WAITING
       /\ tokens[w].doctorId = tokens[last.tokenId].doctorId
       /\ tokens[w].date = tokens[last.tokenId].date
       /\ AdmissibleTo(tokens[w].priority, last.slotId)

----------------------------------------------------------------------------
(* C27 *)

\* slot s, with the tokens it holds once the step is over, still admits
\* token w
StillAdmits(s, w) ==
  Admissible(tokens[w].priority,
             Cardinality(Occupants(tokens', s)),
             Cardinality(OccupantsOf(tokens', s, PAID)),
             Cardinality(OccupantsOf(tokens', s, FOLLOWUP)),
             slots[s].capacity, slots[s].paidCap, slots[s].followUpCap)

\* C27: a cancelToken or markNoShow that frees a seat of a slot that has not
\* ended promotes waiting tokens into that slot first: no token it promotes
\* goes to another slot while the freed slot, even once the operation is
\* over, still admits it.
C27_FreedSlotFirst ==
  [][\A id \in TokenIds(tokens) :
       (ReleaseStep(id) /\ SeatedInOpenSlot(id))
       => \A w \in Promoted :
            \/ tokens'[w].slotId = tokens[id].slotId
            \/ ~StillAdmits(tokens[id].slotId, w)]_vars

----------------------------------------------------------------------------
(* C28 *)

\* C28: a createToken never places an EMERGENCY token in a slot that is
\* already running: the slot the new token is ALLOCATED to starts after the
\* clock time of the request.
C28_NoEmergencyIntoRunningSlot ==
  ( /\ Created
    /\ tokens[last.tokenId].priority = EMERGENCY
    /\ last.slotId # NULL )
  => now < SlotInstant(slots[last.slotId].startTime, slots[last.slotId].date)

----------------------------------------------------------------------------
(* C29 *)

\* the tokens the step takes out of the ALLOCATED status
Released ==
  {i \in TokenIds(tokens) :
     tokens[i].status = ALLOCATED /\ tokens'[i].status # ALLOCATED}

\* the open slots of the doctor and date of row that admit its priority,
\* against the tokens ALLOCATED before the step other than those it releases
AdmitsRow(row) ==
  {s \in OpenSlots(row.doctorId, row.date) :
     Admissible(row.priority,
                Cardinality(Occupants(tokens, s) \ Released),
                Cardinality(OccupantsOf(tokens, s, PAID) \ Released),
                Cardinality(OccupantsOf(tokens, s, FOLLOWUP) \ Released),
                slots[s].capacity, slots[s].paidCap, slots[s].followUpCap)}

\* row is ALLOCATED to the earliest-starting slot that admits it
FirstFit(row) ==
  /\ AdmitsRow(row) # {}
  /\ row.status = ALLOCATED
  /\ row.slotId = Earliest(AdmitsRow(row))

\* C29: a createToken that creates a token of a priority other than EMERGENCY
\* leaves it ALLOCATED to the earliest-starting active, non-ended slot of its
\* doctor and date that is admissible to it, and WAITING without a slot
\* exactly when there is no such slot; the token a cancelToken or markNoShow
\* promotes goes to the earliest such slot as well.
C29_FirstFit ==
  [][/\ ( /\ Len(tokens') = Len(tokens) + 1
          /\ tokens'[Len(tokens')].priority # EMERGENCY )
        => LET row == tokens'[Len(tokens')]
           IN IF AdmitsRow(row) = {}
                THEN row.status = WAITING /\ row.slotId = NULL
                ELSE FirstFit(row)
     /\ \A w \in Promoted :
          (Cardinality(Promoted) = 1 /\ tokens[w].priority # EMERGENCY)
            => FirstFit(tokens'[w])]_vars

\* the last operation created a token of a priority other than EMERGENCY and
\* placed it in a slot that is not the earliest open slot of its doctor and
\* date, an earlier one being full or at the cap of its priority
C29_Witness ==
  /\ Created
  /\ tokens[last.tokenId].priority # EMERGENCY
  /\ tokens[last.tokenId].status = ALLOCATED
  /\ LET open == OpenSlots(tokens[last.tokenId].doctorId,
                           tokens[last.tokenId].date)
     IN /\ Cardinality(open) >= 2
        /\ last.slotId # Earliest(open)

----------------------------------------------------------------------------
(* C30 *)

\* the tokens the step makes ALLOCATED or moves to another slot
NewlySeated ==
  {i \in TokenIds(tokens') :
     /\ tokens'[i].status = ALLOCATED
     /\ \/ i \notin TokenIds(tokens)
        \/ tokens[i].status # ALLOCATED
        \/ tokens[i].slotId # tokens'[i].slotId}

----------------------------------------------------------------------------
(* C31 *)

\* C31: applied to a non-empty list of occupants, findLowestPriorityToken
\* returns the id of an occupant whose priority value is the numerically
\* highest of the list and whose createdAt is the oldest among the occupants
\* with that value; applied to the empty list it returns null.
C31_VictimSelection ==
  last.op = "findLowestPriorityToken"
    => IF Len(tokens) = 0 THEN last.tokenId = NULL
       ELSE \E i \in TokenIds(tokens) :
              /\ tokens[i].id = last.tokenId
              /\ \A j \in TokenIds(tokens) :
                   /\ getPriorityOrder(tokens[j].priority)
                        <= getPriorityOrder(tokens[i].priority)
                   /\ tokens[j].priority = tokens[i].priority
                        => tokens[i].createdAt <= tokens[j].createdAt

\* the function was applied to three occupants, the first of a higher
\* priority than the other two, which share the lowest priority and differ in
\* createdAt, the older one standing last; it returned the last
C31_Witness ==
  /\ last.op = "findLowestPriorityToken"
  /\ Len(tokens) = 3
  /\ getPriorityOrder(tokens[1].priority)
       < getPriorityOrder(tokens[2].priority)
  /\ tokens[2].priority = tokens[3].priority
  /\ tokens[3].createdAt < tokens[2].createdAt
  /\ last.tokenId = 3

----------------------------------------------------------------------------
(* C32 *)

\* C32: no operation takes an EMERGENCY token from ALLOCATED back to WAITING;
\* an EMERGENCY token is never the victim of a displacement, also when an
\* EMERGENCY token is created while a slot of its doctor and date is full of
\* EMERGENCY occupants only.
C32_EmergencyNeverDisplaced ==
  [][\A i \in TokenIds(tokens) :
       tokens[i].priority = EMERGENCY /\ tokens[i].status = ALLOCATED
         => tokens'[i].status # WAITING]_vars

\* the last operation created an EMERGENCY token while a slot of its doctor
\* and date, active and not ended, was full and held EMERGENCY occupants
\* only; the occupants are still ALLOCATED to it
C32_Witness ==
  /\ Created
  /\ tokens[last.tokenId].priority = EMERGENCY
  /\ \E s \in OpenSlots(tokens[last.tokenId].doctorId,
                        tokens[last.tokenId].date) :
       LET held == Occupants(tokens, s) \ {last.tokenId}
       IN /\ held # {}
          /\ Cardinality(held) >= slots[s].capacity
          /\ \A i \in held : tokens[i].priority = EMERGENCY

----------------------------------------------------------------------------
(* C33 *)

\* the rows an allocation takes out of the slot they were ALLOCATED to
DisplacedBy(toks, after) ==
  {i \in TokenIds(toks) :
     /\ toks[i].status = ALLOCATED
     /\ after[i].status # ALLOCATED \/ after[i].slotId # toks[i].slotId}

\* the EMERGENCY_DISPLACEMENT events among the events of an allocation
Displacements(events) ==
  SelectSeq(events, LAMBDA e : e.operation = "EMERGENCY_DISPLACEMENT")

\* C33: allocateToken returns for every token, every token table and every
\* slot configuration, and its displacement is at most one level deep: one
\* call takes at most one token out of its slot and writes at most one
\* EMERGENCY_DISPLACEMENT event, so the re-allocation of a displaced token
\* never displaces in turn.
C33_OneLevel ==
  \A tokenId \in TokenIds(tokens) :
    \E r \in {allocateToken(tokens, <<>>, slots, now, tokenId)} :
      /\ r.err \in {OK, "INVALID_STATUS"}
      /\ Len(r.tokens) = Len(tokens)
      /\ Cardinality(DisplacedBy(tokens, r.tokens)) <= 1
      /\ Len(Displacements(r.audit)) <= 1

\* allocateToken was applied to a WAITING EMERGENCY token while both slots
\* of its doctor and date were full, and returned without a slot
C33_Witness ==
  /\ last.op = "allocateToken"
  /\ last.code = OK
  /\ ~last.success
  /\ tokens[last.tokenId].priority = EMERGENCY
  /\ tokens[last.tokenId].status = WAITING
  /\ \A s \in DOMAIN slots :
       Cardinality(Occupants(tokens, s)) >= slots[s].capacity

----------------------------------------------------------------------------
(* C34 *)

\* the candidates of the reallocation that follows the release of token id:
\* the WAITING tokens of its doctor and date, and only those with source
\* WALKIN when the freed slot is imminent and there is one
CandidateSet(id) ==
  IF /\ Imminent(tokens[id].slotId)
     /\ \E w \in WaitingWith(id) : tokens[w].source = WALKIN
    THEN {w \in WaitingWith(id) : tokens[w].source = WALKIN}
    ELSE WaitingWith(id)

\* the tokens seated in slot s when the turn of candidate v comes: the
\* occupants without the released token id, and the candidates before v
\* that the step promotes into s
SeatedAtTurn(id, v, s) ==
  (Occupants(tokens, s) \ {id})
    \cup {p \in Promoted : p # v /\ Before(p, v) /\ tokens'[p].slotId = s}

\* slot s is admissible to candidate v at its turn
AdmissibleAtTurn(id, v, s) ==
  Admissible(tokens[v].priority,
             Cardinality(SeatedAtTurn(id, v, s)),
             Cardinality({i \in SeatedAtTurn(id, v, s) :
                            tokens[i].priority = PAID}),
             Cardinality({i \in SeatedAtTurn(id, v, s) :
                            tokens[i].priority = FOLLOWUP}),
             slots[s].capacity, slots[s].paidCap, slots[s].followUpCap)

\* C34: in the reallocation of a cancelToken or markNoShow the candidates
\* are attempted in (priority, createdAt) order: a candidate is promoted only
\* if every candidate before it in that order was promoted or was
\* inadmissible to every open slot at its turn; and movedTokens holds exactly
\* the tokens the operation took from WAITING to ALLOCATED, each once.
C34_BackfillOrder ==
  [][\A id \in TokenIds(tokens) :
       ReleaseStep(id)
         => /\ Promoted = {last'.moved[k] : k \in DOMAIN last'.moved}
            /\ Len(last'.moved) = Cardinality(Promoted)
            /\ SeatedInOpenSlot(id) /\ last'.code = OK
                 => \A t1, t2 \in CandidateSet(id) :
                      (t1 # t2 /\ Before(t1, t2) /\ t2 \in Promoted)
                        => \/ t1 \in Promoted
                           \/ \A s \in OpenSlots(tokens[id].doctorId,
                                                 tokens[id].date) :
                                ~AdmissibleAtTurn(id, t1, s)]_vars

\* the last operation freed a seat and promoted a token while a walk-in of
\* higher priority of the same doctor and date, which the paidCap keeps out
\* of the open slot, is still waiting
C34_Witness ==
  /\ last.op \in {"cancelToken", "markNoShow"}
  /\ last.code = OK
  /\ \E k \in DOMAIN last.moved : \E t1 \in TokenIds(tokens) :
       LET t2 == last.moved[k]
       IN /\ tokens[t2].status = ALLOCATED
          /\ tokens[t1].status = WAITING
          /\ tokens[t1].source = WALKIN
          /\ tokens[t1].doctorId = tokens[t2].doctorId
          /\ tokens[t1].date = tokens[t2].date
          /\ getPriorityOrder(tokens[t1].priority)
               < getPriorityOrder(tokens[t2].priority)

----------------------------------------------------------------------------
(* C35 *)

\* C35: after a cancelToken or markNoShow that freed a seat of a slot that
\* has not ended and is not imminent, no WAITING token of the doctor and date
\* is admissible to any open slot of the doctor and date.
C35_BackfillMaximal ==
  [][\A id \in TokenIds(tokens) :
       ( /\ ReleaseStep(id)
         /\ last'.code = OK
         /\ SeatedInOpenSlot(id)
         /\ ~Imminent(tokens[id].slotId) )
       => \A w \in TokenIds(tokens') :
            ( /\ tokens'[w].status = WAITING
              /\ tokens'[w].doctorId = tokens[id].doctorId
              /\ tokens'[w].date = tokens[id].date )
            => \A s \in OpenSlots(tokens[id].doctorId, tokens[id].date) :
                 ~StillAdmits(s, w)]_vars

----------------------------------------------------------------------------
(* C36 *)

\* the WAITING tokens of the doctor and date of row, of a strictly higher
\* priority than row, to which slot s is admissible
WaitingAhead(row, s) ==
  {w \in TokenIds(tokens) :
     /\ tokens[w].status = WAITING
     /\ tokens[w].doctorId = row.doctorId
     /\ tokens[w].date = row.date
     /\ getPriorityOrder(tokens[w].priority) < getPriorityOrder(row.priority)
     /\ AdmissibleTo(tokens[w].priority, s)}

\* C36: a createToken never seats the token it creates in a slot that is
\* admissible to an already WAITING token of strictly higher priority of the
\* same doctor and date: a seat that has opened goes to the waiting tokens
\* before it goes to a new arrival of lower priority.
C36_NoQueueJumping ==
  [][Len(tokens') = Len(tokens) + 1
       => LET row == tokens'[Len(tokens')]
          IN row.status = ALLOCATED => WaitingAhead(row, row.slotId) = {}]_vars

----------------------------------------------------------------------------
(* C37 *)

\* ids of the tokens whose slotId names a slot and that hold or have used a
\* seat of it: the ALLOCATED ones and the COMPLETED ones
Served(toks, slotId) ==
  {i \in TokenIds(toks) :
     toks[i].slotId = slotId /\ toks[i].status \in {ALLOCATED, COMPLETED}}

\* C37: for every slot, the tokens whose slotId names it, ALLOCATED or
\* COMPLETED, are never more than its capacity: the seat of a token completed
\* in the slot is not given to a later allocation.
C37_ServedWithinCapacity ==
  \A s \in DOMAIN slots :
    Cardinality(Served(tokens, s)) <= slots[s].capacity

----------------------------------------------------------------------------
(* C38 *)

\* C38: when expireWaitingTokens runs beside the reallocation of a
\* cancelToken or markNoShow of the same doctor and date, no token that is
\* EXPIRED is afterwards ALLOCATED, and every EXPIRED token is without a
\* slot: a token that was WAITING ends EXPIRED or ALLOCATED, never first the
\* one and then the other.
C38_ExpiredStaysExpired ==
  [][\A i \in TokenIds(tokens) :
       /\ tokens[i].status = EXPIRED => tokens'[i].status # ALLOCATED
       /\ tokens'[i].status = EXPIRED => tokens'[i].slotId = NULL]_vars

----------------------------------------------------------------------------
(* C39 *)

\* C39: when updateSlotCapacity or deleteSlot runs beside createToken, the
\* test on the ALLOCATED tokens of the slot and the write of the slot act as
\* one step: once the handler has answered, no slot holds more ALLOCATED
\* tokens than its capacity and no deactivated slot holds an ALLOCATED token.
C39_SlotWritesAtomic ==
  txs.pc = "idle"
    => \A s \in DOMAIN slots :
         /\ Cardinality(Occupants(tokens, s)) <= slots[s].capacity
         /\ Occupants(tokens, s) # {} => slots[s].isActive

====
